---- MODULE Spec2Model ----
(***************************************************************************)
(* BlueALSA SCO transport engine (src/src/sco.c): the per-transport I/O    *)
(* loop sco_thread, its timer helpers, release/attach of the SCO socket    *)
(* and the part of the dispatcher that hands a socket to the transport.    *)
(* The control plane, the remote peer, the kernel timer and the PCM        *)
(* clients are the environment.                                            *)
(***************************************************************************)
EXTENDS Integers, Sequences, FiniteSets, TLC

\* ------------------------------------------------------------------ constants
SCO_DRAIN_TIMEOUT == 250
SCO_LINGER_TIMEOUT == 1000
SCO_CLOSE_TIMEOUT == 600
\* ffb_init_uint8_t(&bt_in, 128), ffb_init_uint8_t(&bt_out, 128)
BufSize == 128
\* one mSBC frame: 120 PCM samples in, 60 bytes on the air
MSBC_CODESAMPLES == 120
MSBC_FRAMELEN == 60

\* ------------------------------------------------------------------ bounds
\* signals of the control plane that may wait in the pipe at once
MaxQueue == 1
\* events the environment injects during one run: signals sent by the control
\* plane, links accepted by the dispatcher, and faults (a link closed by the peer,
\* a PCM client that went away, a failed system call)
MaxEvents == 2

\* a closed descriptor (pcm->fd == -1, t->bt_fd == -1, pfds[i].fd = -1)
NOFD == -1
\* the descriptors the control plane stores in spk_pcm.fd and mic_pcm.fd
PcmFd == [spk |-> 10, mic |-> 11]
\* descriptors accept() hands out
BtFds == {20, 21}
\* values of asrs.frames are kept up to this many (saturating)
AsrsCap == 24
\* the busy delay published to the PCMs is taken up to this many hundreds of
\* microseconds
MaxDelay == 2

States == {"IDLE", "RUNNING", "DRAINING", "LINGER", "CLOSING"}
Signals == {"PING", "PCM_OPEN", "PCM_RESUME", "PCM_CLOSE", "PCM_SYNC", "PCM_DROP",
            "PCM_PAUSE"}
Profiles == {"AG", "HF"}
Codecs == {"CVSD", "MSBC"}
\* t->type.profile & BA_TRANSPORT_PROFILE_MASK_AG
BA_TRANSPORT_PROFILE_MASK_AG == {"AG"}

VARIABLES
  pc,          \* position of sco_thread
  dpc,         \* position of sco_dispatcher_thread
  state,       \* t->sco.state
  profile,     \* t->type.profile
  codec,       \* t->type.codec
  bt_fd,       \* t->bt_fd
  mtu_read,    \* t->mtu_read
  mtu_write,   \* t->mtu_write
  spk_fd,      \* t->sco.spk_pcm.fd
  mic_fd,      \* t->sco.mic_pcm.fd
  delay,       \* t->sco.spk_pcm.delay and t->sco.mic_pcm.delay
  timer,       \* t->sco.timer_fd: [ms: armed it_value in ms (0 = disarmed), exp: readable]
  queue,       \* th->pipe: signals written and not yet read
  pfds,        \* pfds[1..4].fd as selected for the poll
  rev,         \* pfds[0].revents and pfds[5].revents as returned by the poll: [sig, tmr]
  bt_in,       \* bytes pending in bt_in  (tail - data)
  bt_out,      \* bytes pending in bt_out (tail - data)
  msbc,        \* struct esco_msbc
  initialize_msbc,
  asrs,        \* struct asrsync: [frames, rate]
  io,          \* [len, errno, buffer_len]: result and length of the SCO read or write
               \* just made, NoIo when none is pending
  nevents,     \* events the environment has injected so far
  traffic,     \* whether the peer and the PCM clients move data in this run
  released,    \* release() calls made by the last sco_thread step
  synced,      \* pthread_cond_signal(&spk_pcm.synced) calls made by the last sco_thread step
  flushed,     \* ba_transport_pcm_flush(&spk_pcm) calls made by the last sco_thread step
  signal,      \* the signal the last sco_thread step received, "NONE" if it received none
  drain_wait,  \* a PCM_SYNC was consumed and spk_pcm.synced was not signalled since
  cancel,      \* cancel state of sco_thread (pthread_setcancelstate)
  mutex,       \* holder of t->mutex: "dispatcher" inside sco_refresh_bt(), else "none"
               \* (sco_release_bt(), lines 59-62, is a step that needs the mutex free)
  dfd,         \* `fd` of sco_dispatcher_thread: the link accepted and not yet handed over
  dlog,        \* what the dispatcher did for the link it accepted last, in order
  sco_dispatcher, \* a->sco_dispatcher
  ndisp,       \* dispatcher threads created for the adapter
  setup_ret,   \* the last call of sco_setup_connection_dispatcher: [ret: what it
               \* returned, created: whether it paced a thread]
  refs,        \* the locals `d` and `t` of the dispatcher's iteration (TRUE: not NULL) and
               \* the references it holds to the device and to the transport
  paced        \* the frames the last sco_thread step passed to asrsync_sync(), 0 when
               \* it made no such call

vars == <<pc, dpc, state, profile, codec, bt_fd, mtu_read, mtu_write, spk_fd, mic_fd,
          delay, timer, queue, pfds, rev, bt_in, bt_out, msbc, initialize_msbc, asrs,
          io, nevents, traffic, released, synced, flushed, signal, drain_wait,
          cancel, paced, mutex, dfd, dlog, sco_dispatcher, ndisp, setup_ret, refs>>

\* the transport fields guarded by t->mutex
tvars == <<bt_fd, mtu_read, mtu_write>>
\* what only the dispatcher and the adapter setup change, besides dpc
dispvars == <<dfd, dlog, sco_dispatcher, ndisp, setup_ret, refs>>
\* what only the environment changes
envvars == <<profile, codec, nevents, traffic, dpc, mutex, dispvars>>
\* the data buffers of the loop
bufvars == <<bt_in, bt_out, msbc>>

Min(a, b) == IF a < b THEN a ELSE b

\* ------------------------------------------------------------------ timer
\* sco_start_timer without the remainder: tv_nsec is msec * 1000000 as it is
sco_start_timer_nomod(msec) ==
  [tv_sec |-> msec \div 1000, tv_nsec |-> msec * 1000000]

\* lines 225-232: the it_value sco_start_timer() passes to timerfd_settime(), for
\* the arguments the loop uses (their product with 1000000 fits a long of 32 bits)
sco_start_timer(msec) ==
  [tv_sec |-> msec \div 1000, tv_nsec |-> (msec * 1000000) % 1000000000]

\* the it_value sco_cancel_timer() passes: all zero
sco_cancel_timer == [tv_sec |-> 0, tv_nsec |-> 0]

\* timerfd_settime(fd, 0, &timeout, NULL): a zero it_value disarms, any other
\* value arms a one-shot expiry; both discard an expiry not yet read. A tv_nsec
\* outside 0..999999999 or a negative tv_sec makes the call fail with EINVAL and
\* leaves the timer as it is (sco_start_timer() does not look at the result).
timerfd_settime(v) ==
  IF v.tv_sec >= 0 /\ v.tv_nsec >= 0 /\ v.tv_nsec < 1000000000
  THEN [ms |-> v.tv_sec * 1000 + v.tv_nsec \div 1000000, exp |-> FALSE]
  ELSE timer

TimerOff == [ms |-> 0, exp |-> FALSE]

\* the widths `long` (the type of tv_nsec, line 229) has in the builds of the
\* program: ILP32 and LP64
LongBits == {32, 64}

\* whether msec * 1000000 (line 229) exceeds LONG_MAX: 2^31 - 1 for a long of 32
\* bits; for a long of 64 bits LONG_MAX / 1000000 is 9223372036854, above every
\* timeout
mul_overflows(msec, bits) == bits = 32 /\ msec > 2147483647 \div 1000000

\* sco_pcm_is_closed that takes every PCM for closed
sco_pcm_is_closed_always(fd) == TRUE

sco_pcm_is_closed(fd) == fd = NOFD

\* ------------------------------------------------------------------ ffb
\* a buffer is the number of bytes (or samples) pending between data and tail
ffb_len_in(b, size) == size - b
ffb_len_out(b) == b
ffb_seek(b, n) == b + n
ffb_shift(b, n) == b - n
ffb_rewind(b) == 0
\* ffb_shift(&b, n) where n may lie outside the used space; a negative n stands for
\* the size_t it converts to, which is above every capacity. What the buffer does
\* then is not defined: a shift that limits the count empties the buffer, one that
\* does not moves the tail by the count modulo the width of size_t.
ffb_shift_outcomes(b, n) ==
  IF n >= 0 /\ n <= b THEN {ffb_shift(b, n)} ELSE {ffb_rewind(b), ffb_shift(b, n)}

\* ------------------------------------------------------------------ mSBC
\* capacities of the codec buffers: two frames of PCM, three frames of data
MsbcPcmSize == 2 * MSBC_CODESAMPLES
MsbcDataSize == 3 * MSBC_FRAMELEN

MsbcOff ==
  [initialized |-> FALSE, enc_pcm |-> 0, enc_data |-> 0, dec_data |-> 0,
   dec_pcm |-> 0, enc_frames |-> 0]

msbc_init(m) ==
  [initialized |-> TRUE, enc_pcm |-> 0, enc_data |-> 0, dec_data |-> 0,
   dec_pcm |-> 0, enc_frames |-> 0]

\* while enc_pcm holds a frame of samples and enc_data has room for a frame
msbc_encode(m) ==
  LET k == Min(m.enc_pcm \div MSBC_CODESAMPLES,
               ffb_len_in(m.enc_data, MsbcDataSize) \div MSBC_FRAMELEN)
  IN [m EXCEPT !.enc_pcm = ffb_shift(@, k * MSBC_CODESAMPLES),
               !.enc_data = ffb_seek(@, k * MSBC_FRAMELEN),
               !.enc_frames = @ + k]

\* while dec_data holds a frame and dec_pcm has room for its samples
msbc_decode(m) ==
  LET k == Min(m.dec_data \div MSBC_FRAMELEN,
               ffb_len_in(m.dec_pcm, MsbcPcmSize) \div MSBC_CODESAMPLES)
  IN [m EXCEPT !.dec_data = ffb_shift(@, k * MSBC_FRAMELEN),
               !.dec_pcm = ffb_seek(@, k * MSBC_CODESAMPLES)]

\* ------------------------------------------------------------------ transport
\* t->release(t): detaches the SCO socket
release == NOFD

\* hci_sco_get_mtu(fd) for the link type the codec uses
hci_sco_get_mtu(c) == IF c = "MSBC" THEN 60 ELSE 48

\* the sampling rate of the speaker PCM: 8 kHz for CVSD, 16 kHz for mSBC
spk_sampling == IF codec = "MSBC" THEN 16000 ELSE 8000

\* values of asrsync_get_busy_usec() / 100 (line 639): the busy time is what the
\* clock measured since the last synchronization, any number of microseconds; the
\* runs take the values up to MaxDelay. The loop stores the value in the two PCMs
\* (line 640) and never reads it back.
Delays == 0..MaxDelay

\* asrsync_init(&asrs, rate)
asrsync_init(a, rate) == [frames |-> 0, rate |-> rate]

\* asrsync_sync(&asrs, frames): the frame counter advances by `frames`. The loop
\* looks at the counter in line 420 only, where it tests it against 0; the runs
\* count up to AsrsCap, and the frames of every call are kept in `paced`.
asrsync_sync(a, frames) == [a EXCEPT !.frames = Min(@ + frames, AsrsCap)]

\* lines 420-421: if (asrs.frames == 0) asrsync_init(&asrs, spk_pcm.sampling)
asrs_check(a) == IF a.frames = 0 THEN asrsync_init(a, spk_sampling) ELSE a

\* ------------------------------------------------------------------ initial state
\* pthread_setcancelstate() states
PTHREAD_CANCEL_ENABLE == "ENABLE"
PTHREAD_CANCEL_DISABLE == "DISABLE"
\* thread identities an adapter records in a->sco_dispatcher
MAIN_THREAD == "main"
DISPATCHER_THREAD == "ba-sco-dispatch"

\* lines 116-117: no device and no transport looked up, no reference held
NoRefs == [d |-> FALSE, t |-> FALSE, device |-> 0, transport |-> 0]

\* ba_device_lookup() and ba_transport_lookup() return the object with a reference
\* taken for the caller
ba_device_lookup(r) == [r EXCEPT !.d = TRUE, !.device = @ + 1]
ba_transport_lookup(r) == [r EXCEPT !.t = TRUE, !.transport = @ + 1]

\* dispatcher_unref that gives back the reference of the device only
dispatcher_unref_device(r) ==
  [d |-> FALSE, t |-> FALSE,
   device |-> IF r.d THEN r.device - 1 ELSE r.device,
   transport |-> r.transport]

\* lines 157-160 and 164: the references of the objects looked up are given back,
\* then `d` and `t` go out of scope
dispatcher_unref(r) ==
  [d |-> FALSE, t |-> FALSE,
   device |-> IF r.d THEN r.device - 1 ELSE r.device,
   transport |-> IF r.t THEN r.transport - 1 ELSE r.transport]

\* the dispatcher of the adapter was set up and waits for a link (lines 101-105)
DispRunning ==
  /\ dpc = "poll"
  /\ dfd = NOFD
  /\ dlog = <<>>
  /\ mutex = "none"
  /\ sco_dispatcher = DISPATCHER_THREAD
  /\ ndisp = 1
  /\ setup_ret = [ret |-> 0, created |-> TRUE]
  /\ refs = NoRefs

\* the adapter before sco_setup_connection_dispatcher() was called for it
DispNotSetUp ==
  /\ dpc = "none"
  /\ dfd = NOFD
  /\ dlog = <<>>
  /\ mutex = "none"
  /\ sco_dispatcher = MAIN_THREAD
  /\ ndisp = 0
  /\ setup_ret = [ret |-> 0, created |-> FALSE]
  /\ refs = NoRefs

NoRev == [sig |-> FALSE, tmr |-> FALSE]
NoIo == [len |-> 0, errno |-> "none", buffer_len |-> 0]

\* lines 247-283: sco_thread before its first iteration, for a transport just created
InitThread ==
  /\ pc = "select"
  /\ cancel = PTHREAD_CANCEL_DISABLE
  /\ state = "IDLE"
  /\ profile \in Profiles
  /\ codec \in Codecs
  /\ bt_fd = NOFD
  /\ mtu_read = 0
  /\ mtu_write = 0
  /\ spk_fd = NOFD
  /\ mic_fd = NOFD
  /\ delay = [spk |-> 0, mic |-> 0]
  /\ timer = TimerOff
  /\ queue = <<>>
  /\ pfds = [i \in 1..4 |-> NOFD]
  /\ rev = NoRev
  /\ bt_in = 0
  /\ bt_out = 0
  /\ msbc = MsbcOff
  /\ initialize_msbc = TRUE
  /\ asrs = [frames |-> 0, rate |-> 0]
  /\ io = NoIo
  /\ nevents = 0
  /\ traffic \in BOOLEAN
  /\ released = 0
  /\ synced = 0
  /\ flushed = 0
  /\ signal = "NONE"
  /\ drain_wait = FALSE

Init == InitThread /\ DispRunning /\ paced = 0

\* the loop goes on at `p`; lines 289-291: at the loop head the descriptors polled
\* start afresh
Goto(p) ==
  /\ pc' = p
  /\ pfds' = IF p = "select" THEN [i \in 1..4 |-> NOFD] ELSE pfds
  /\ rev' = IF p = "select" THEN NoRev ELSE rev

\* ba_transport_thread_recv_signal(th): the oldest signal of the pipe
recv_signal == Head(queue)

\* whether the environment may inject another event
MayFail == nevents < MaxEvents

\* lines 59 and 66: pthread_mutex_lock(&t->mutex) returns when no thread holds the
\* mutex; a step that calls sco_release_bt() waits for that
mutex_lock == mutex = "none"

\* what the step just taken by sco_thread called, and the signal it handles: the
\* one it read from the pipe, or PCM_CLOSE in the second step of that handler
Calls(r, s, f) ==
  /\ released' = r
  /\ synced' = s
  /\ flushed' = f
  /\ paced' = 0
  /\ signal' = IF pc = "sig" THEN recv_signal
             ELSE IF pc = "close_mic" THEN "PCM_CLOSE" ELSE "NONE"

\* the pacing step: no release, no signal on spk_pcm.synced, no flush, and
\* asrsync_sync() called with `frames` (0: not called)
CallsSync(frames) ==
  /\ released' = 0
  /\ synced' = 0
  /\ flushed' = 0
  /\ paced' = frames
  /\ signal' = "NONE"

\* ------------------------------------------------------------------ sco_thread: loop head
\* The loop head reads t->mtu_read, t->mtu_write, t->bt_fd and the descriptors of
\* the two PCMs without t->mutex, one after the other: every such read is a step of
\* its own, taken with the local computation that follows it up to the next read,
\* so that the dispatcher and the control plane may act between any two of them.
\* Positions: "select" (line 287, up to the read of mtu_read in line 306 or 321),
\* "sel_in_fd" (bt_fd, line 307 or 322), "sel_out" (mtu_write, 308 or 323),
\* "sel_out_fd" (bt_fd, 309 or 324), "sel_spk" (bt_fd, 310 or 325), "sel_spk_mtu"
\* (mtu_write, 310 or 325), "sel_spk_fd" (spk_pcm.fd, 311 or 326), "sel_mic_fd"
\* (mic_pcm.fd, 313 or 328), "sel_reinit" (spk_pcm.fd, 331), "sel_reinit_mic"
\* (mic_pcm.fd, 331), "sel_reinit_bt" (bt_fd, 332).

\* ScoInReady that takes the buffer to have room whatever it holds
ScoInReady_nospace(m) == TRUE

\* lines 306 and 321: the buffer of incoming SCO data has room for a packet
ScoInReady(m) ==
  IF codec = "MSBC" THEN ffb_len_in(m.dec_data, MsbcDataSize) >= mtu_read
  ELSE ffb_len_in(bt_in, BufSize) >= mtu_read

\* lines 308 and 323: the buffer of outgoing SCO data holds a packet
ScoOutReady ==
  IF codec = "MSBC" THEN ffb_len_out(msbc.enc_data) >= mtu_write
  ELSE ffb_len_out(bt_out) >= mtu_write

\* LinkAttached that takes a link to be attached at all times
LinkAttached_always == TRUE

\* lines 310 and 325, the first operand: t->bt_fd != -1
LinkAttached == bt_fd # NOFD

\* lines 310 and 325, the second operand: there is room for the samples of a packet
\* (enc_pcm holds samples of two bytes, ffb_blen_in counts bytes)
SpkReady ==
  IF codec = "MSBC" THEN 2 * ffb_len_in(msbc.enc_pcm, MsbcPcmSize) >= mtu_write
  ELSE ffb_len_in(bt_out, BufSize) >= mtu_write

\* lines 312 and 327: there is data for the microphone PCM
MicReady ==
  IF codec = "MSBC" THEN 2 * ffb_len_out(msbc.dec_pcm) > 0
  ELSE ffb_len_out(bt_in) > 0

\* where the loop head goes on after the test for the microphone PCM: for mSBC
\* lines 331-333 come before the poll
AfterMic == IF codec = "MSBC" THEN "sel_reinit" ELSE "poll"

\* where the loop head goes on after the lines of the speaker PCM
AfterSpk == IF MicReady THEN "sel_mic_fd" ELSE AfterMic

\* the loop head goes on at `p`; line 338: the thread may be cancelled in the poll
GotoHead(p) ==
  /\ pc' = p
  /\ cancel' = IF p = "poll" THEN PTHREAD_CANCEL_ENABLE ELSE cancel
  /\ rev' = rev
  /\ Calls(0, 0, 0)

\* lines 284-306 and 317-321: the codec is read, the descriptors start afresh (Goto),
\* the mSBC codec is initialized where that is due and runs, and the room of the
\* incoming buffer is compared with t->mtu_read
Select ==
  /\ pc = "select"
  /\ LET m0 == IF codec = "MSBC" /\ initialize_msbc THEN msbc_init(msbc) ELSE msbc
         m1 == IF codec = "MSBC" THEN msbc_decode(msbc_encode(m0)) ELSE m0
     IN /\ msbc' = m1
        /\ GotoHead(IF ScoInReady(m1) THEN "sel_in_fd" ELSE "sel_out")
  /\ initialize_msbc' = IF codec = "MSBC" THEN FALSE ELSE initialize_msbc
  /\ UNCHANGED <<state, tvars, spk_fd, mic_fd, delay, timer, queue, pfds, bt_in, bt_out,
                 asrs, io, drain_wait, envvars>>

\* the tests of lines 308-310 (323-325), each on one read of a transport field:
\* the bytes to send against t->mtu_write, t->bt_fd against -1, and the room for
\* samples against t->mtu_write
SelectTest ==
  /\ pc \in {"sel_out", "sel_spk", "sel_spk_mtu"}
  /\ GotoHead(CASE pc = "sel_out" -> IF ScoOutReady THEN "sel_out_fd" ELSE "sel_spk"
                [] pc = "sel_spk" -> IF LinkAttached THEN "sel_spk_mtu" ELSE AfterSpk
                [] pc = "sel_spk_mtu" -> IF SpkReady THEN "sel_spk_fd" ELSE AfterSpk)
  /\ UNCHANGED <<state, tvars, spk_fd, mic_fd, delay, timer, queue, pfds, bufvars,
                 initialize_msbc, asrs, io, drain_wait, envvars>>

\* the stores of lines 307, 309, 311 and 313 (322, 324, 326 and 328): a descriptor
\* is read from the transport and put into the poll set
SelectFd ==
  /\ pc \in {"sel_in_fd", "sel_out_fd", "sel_spk_fd", "sel_mic_fd"}
  /\ pfds' = CASE pc = "sel_in_fd" -> [pfds EXCEPT ![1] = bt_fd]
               [] pc = "sel_out_fd" -> [pfds EXCEPT ![2] = bt_fd]
               [] pc = "sel_spk_fd" -> [pfds EXCEPT ![3] = spk_fd]
               [] pc = "sel_mic_fd" -> [pfds EXCEPT ![4] = mic_fd]
  /\ GotoHead(CASE pc = "sel_in_fd" -> "sel_out"
                [] pc = "sel_out_fd" -> "sel_spk"
                [] pc = "sel_spk_fd" -> AfterSpk
                [] pc = "sel_mic_fd" -> AfterMic)
  /\ UNCHANGED <<state, tvars, spk_fd, mic_fd, delay, timer, queue, bufvars,
                 initialize_msbc, asrs, io, drain_wait, envvars>>

\* lines 331-333, read by read: spk_pcm.fd, then mic_pcm.fd when the speaker PCM is
\* closed, then t->bt_fd unless both PCMs are closed; the codec is marked for
\* reinitialization when both PCMs are closed or no link is attached
SelectReinit ==
  /\ pc \in {"sel_reinit", "sel_reinit_mic", "sel_reinit_bt"}
  /\ codec = "MSBC"
  /\ CASE pc = "sel_reinit" ->
            /\ GotoHead(IF spk_fd = NOFD THEN "sel_reinit_mic" ELSE "sel_reinit_bt")
            /\ initialize_msbc' = initialize_msbc
       [] pc = "sel_reinit_mic" ->
            /\ GotoHead(IF mic_fd = NOFD THEN "poll" ELSE "sel_reinit_bt")
            /\ initialize_msbc' = IF mic_fd = NOFD THEN TRUE ELSE initialize_msbc
       [] pc = "sel_reinit_bt" ->
            /\ GotoHead("poll")
            /\ initialize_msbc' = IF bt_fd = NOFD THEN TRUE ELSE initialize_msbc
  /\ UNCHANGED <<state, tvars, spk_fd, mic_fd, delay, timer, queue, pfds, bufvars,
                 asrs, io, drain_wait, envvars>>

\* the positions of the loop head after its first step
HeadReads == {"sel_in_fd", "sel_out", "sel_out_fd", "sel_spk", "sel_spk_mtu", "sel_spk_fd",
              "sel_mic_fd", "sel_reinit", "sel_reinit_mic", "sel_reinit_bt"}

\* lines 294-299 and 646: msbc_init() fails, the thread ends
SelectInitFail ==
  /\ pc = "select"
  /\ codec = "MSBC"
  /\ initialize_msbc
  /\ MayFail
  /\ nevents' = nevents + 1
  /\ initialize_msbc' = FALSE
  /\ Goto("exit")
  /\ cancel' = PTHREAD_CANCEL_DISABLE
  /\ Calls(0, 0, 0)
  /\ UNCHANGED <<state, tvars, spk_fd, mic_fd, delay, timer, queue, bufvars,
                 asrs, io, drain_wait, profile, codec, traffic, dpc, mutex, dispvars>>

\* ------------------------------------------------------------------ sco_thread: poll
\* The revents of the descriptors 1..4 are inputs, drawn when the loop examines
\* them: a descriptor that was polled (pfds[i] # -1) may report an event or none.
\* `DataStages(k)` are the handlers the loop may run next after handler k, in the
\* order of lines 423-622; with no further event it is the pacing step.
StageOf == <<"sco_read", "sco_write", "pcm_read", "pcm_write">>
DataStages(k) == {StageOf[i] : i \in {j \in (k + 1)..4 : pfds[j] # NOFD}} \cup {"pace"}
AfterTimer == DataStages(0)
AfterSignal == IF rev.tmr THEN {"timer"} ELSE AfterTimer
AfterScoRead == DataStages(1)
AfterScoWrite_any == DataStages(0)
AfterScoWrite == DataStages(2)
AfterPcmRead == DataStages(3)

\* lines 340-347: poll returns with events: a signal in the pipe, an expiry of the
\* timer, or an event of a polled descriptor
PollReturn ==
  /\ pc = "poll"
  /\ queue # <<>> \/ timer.exp \/ \E i \in 1..4 : pfds[i] # NOFD
  /\ rev' = [sig |-> queue # <<>>, tmr |-> timer.exp]
  /\ \E p \in (IF queue # <<>> THEN {"sig"} ELSE IF timer.exp THEN {"timer"} ELSE AfterTimer) :
       /\ pc' = p
       /\ asrs' = IF p \in {"sig", "timer"} THEN asrs ELSE asrs_check(asrs)
  /\ cancel' = PTHREAD_CANCEL_DISABLE
  /\ Calls(0, 0, 0)
  /\ UNCHANGED <<state, tvars, spk_fd, mic_fd, delay, timer, queue, pfds, bufvars,
                 initialize_msbc, io, drain_wait, envvars>>

\* lines 340-342: poll is interrupted, the loop starts over (`continue` comes before
\* line 347: the cancel state stays as line 338 set it)
PollEintr ==
  /\ pc = "poll"
  /\ Goto("select")
  /\ Calls(0, 0, 0)
  /\ UNCHANGED <<state, tvars, spk_fd, mic_fd, delay, timer, queue, bufvars,
                 initialize_msbc, asrs, io, drain_wait, cancel, envvars>>

\* lines 343-344 and 646: poll fails, the thread ends
PollFail ==
  /\ pc = "poll"
  /\ MayFail
  /\ nevents' = nevents + 1
  /\ Goto("exit")
  /\ cancel' = PTHREAD_CANCEL_DISABLE
  /\ Calls(0, 0, 0)
  /\ UNCHANGED <<state, tvars, spk_fd, mic_fd, delay, timer, queue, bufvars,
                 initialize_msbc, asrs, io, drain_wait, profile, codec, traffic, dpc, mutex,
                 dispvars>>

\* ------------------------------------------------------------------ sco_thread: signals
\* The handlers of PCM_CLOSE (lines 365-370) and of the linger expiry (lines
\* 403-409) test the profile and then read spk_pcm.fd and mic_pcm.fd through
\* sco_pcm_is_closed(), without a lock and one after the other: each read is a
\* step of its own, so that the control plane and the dispatcher may act between
\* them. Positions: "close_mic" (mic_pcm.fd, line 367), "linger_mic" (mic_pcm.fd,
\* line 405), "linger_release" (sco_release_bt(), line 408), "linger_timer"
\* (sco_start_timer(), line 409).

\* ProfileAG that takes every profile for an Audio Gateway one
ProfileAG_any == TRUE

\* lines 365 and 403: t->type.profile & BA_TRANSPORT_PROFILE_MASK_AG
ProfileAG == profile \in BA_TRANSPORT_PROFILE_MASK_AG

SigGuard(s) == pc = "sig" /\ queue # <<>> /\ recv_signal = s

\* SigPing that reads the pipe until it is empty
SigPing_drain ==
  /\ SigGuard("PING")
  /\ queue' = <<>>
  /\ Goto("select")
  /\ Calls(0, 0, 0)
  /\ UNCHANGED <<state, tvars, spk_fd, mic_fd, delay, timer, bufvars,
                 initialize_msbc, asrs, io, drain_wait, cancel, envvars>>

\* lines 352-353
SigPing ==
  /\ SigGuard("PING")
  /\ queue' = Tail(queue)
  /\ Goto("select")
  /\ Calls(0, 0, 0)
  /\ UNCHANGED <<state, tvars, spk_fd, mic_fd, delay, timer, bufvars,
                 initialize_msbc, asrs, io, drain_wait, cancel, envvars>>

\* SigPcmOpen that leaves the timer as it is
SigPcmOpen_timer ==
  /\ \/ SigGuard("PCM_OPEN")
     \/ SigGuard("PCM_RESUME")
  /\ queue' = Tail(queue)
  /\ state' = "RUNNING"
  /\ asrs' = [asrs EXCEPT !.frames = 0]
  /\ Goto("select")
  /\ Calls(0, 0, 0)
  /\ UNCHANGED <<tvars, spk_fd, mic_fd, delay, timer, bufvars,
                 initialize_msbc, io, drain_wait, cancel, envvars>>

\* lines 354-359
SigPcmOpen ==
  /\ \/ SigGuard("PCM_OPEN")
     \/ SigGuard("PCM_RESUME")
  /\ queue' = Tail(queue)
  /\ timer' = timerfd_settime(sco_cancel_timer)
  /\ state' = "RUNNING"
  /\ asrs' = [asrs EXCEPT !.frames = 0]
  /\ Goto("select")
  /\ Calls(0, 0, 0)
  /\ UNCHANGED <<tvars, spk_fd, mic_fd, delay, bufvars,
                 initialize_msbc, io, drain_wait, cancel, envvars>>

\* lines 360-366: PCM_CLOSE is read from the pipe; for an Audio Gateway the handler
\* reads spk_pcm.fd and, when that is -1, goes on to the read of mic_pcm.fd;
\* otherwise the iteration ends with the state and the timer as they were
SigPcmClose ==
  /\ SigGuard("PCM_CLOSE")
  /\ queue' = Tail(queue)
  /\ IF ProfileAG /\ sco_pcm_is_closed(spk_fd)
     THEN /\ pc' = "close_mic"
          /\ UNCHANGED <<pfds, rev>>
     ELSE Goto("select")
  /\ Calls(0, 0, 0)
  /\ UNCHANGED <<state, timer, tvars, spk_fd, mic_fd, delay, bufvars,
                 initialize_msbc, asrs, io, drain_wait, cancel, envvars>>

\* SigPcmCloseMic without the test of the state: a close restarts the linger time
SigPcmCloseMic_restart ==
  /\ pc = "close_mic"
  /\ IF sco_pcm_is_closed(mic_fd)
     THEN /\ state' = "LINGER"
          /\ timer' = [ms |-> SCO_LINGER_TIMEOUT, exp |-> FALSE]
     ELSE UNCHANGED <<state, timer>>
  /\ Goto("select")
  /\ Calls(0, 0, 0)
  /\ UNCHANGED <<tvars, spk_fd, mic_fd, delay, queue, bufvars,
                 initialize_msbc, asrs, io, drain_wait, cancel, envvars>>

\* SigPcmCloseMic that leaves the switch with break: the iteration goes on to the
\* timer and the I/O handlers
SigPcmCloseMic_break ==
  /\ pc = "close_mic"
  /\ IF sco_pcm_is_closed(mic_fd) /\ state # "LINGER"
     THEN /\ state' = "LINGER"
          /\ timer' = [ms |-> SCO_LINGER_TIMEOUT, exp |-> FALSE]
     ELSE UNCHANGED <<state, timer>>
  /\ \E p \in AfterSignal : Goto(p)
  /\ Calls(0, 0, 0)
  /\ UNCHANGED <<tvars, spk_fd, mic_fd, delay, queue, bufvars,
                 initialize_msbc, asrs, io, drain_wait, cancel, envvars>>

\* lines 367-372: mic_pcm.fd is read; when it is -1 too and the state is not LINGER
\* the state becomes LINGER and the linger timer is armed; the iteration ends
SigPcmCloseMic ==
  /\ pc = "close_mic"
  /\ IF sco_pcm_is_closed(mic_fd) /\ state # "LINGER"
     THEN /\ state' = "LINGER"
          /\ timer' = timerfd_settime(sco_start_timer(SCO_LINGER_TIMEOUT))
     ELSE UNCHANGED <<state, timer>>
  /\ Goto("select")
  /\ Calls(0, 0, 0)
  /\ UNCHANGED <<tvars, spk_fd, mic_fd, delay, queue, bufvars,
                 initialize_msbc, asrs, io, drain_wait, cancel, envvars>>

\* lines 373-376: the break goes on to the timer and the I/O handlers
SigPcmSync ==
  /\ SigGuard("PCM_SYNC")
  /\ queue' = Tail(queue)
  /\ state' = "DRAINING"
  /\ timer' = timerfd_settime(sco_start_timer(SCO_DRAIN_TIMEOUT))
  /\ drain_wait' = TRUE
  /\ \E p \in AfterSignal : Goto(p)
  /\ asrs' = IF rev.tmr THEN asrs ELSE asrs_check(asrs)
  /\ Calls(0, 0, 0)
  /\ UNCHANGED <<tvars, spk_fd, mic_fd, delay, bufvars,
                 initialize_msbc, io, cancel, envvars>>

\* lines 381-382: a signal the switch has no case for is read from the pipe and
\* ignored; the break goes on to the timer and the I/O handlers
SigOther ==
  /\ pc = "sig" /\ queue # <<>> /\ recv_signal \notin {"PING", "PCM_OPEN", "PCM_RESUME", "PCM_CLOSE", "PCM_SYNC", "PCM_DROP"}
  /\ queue' = Tail(queue)
  /\ \E p \in AfterSignal : Goto(p)
  /\ asrs' = IF rev.tmr THEN asrs ELSE asrs_check(asrs)
  /\ Calls(0, 0, 0)
  /\ UNCHANGED <<state, tvars, spk_fd, mic_fd, delay, timer, bufvars,
                 initialize_msbc, io, drain_wait, cancel, envvars>>

\* SigPcmDrop that also puts the state machine back to IDLE
SigPcmDrop_idle ==
  /\ pc = "sig" /\ queue # <<>> /\ Head(queue) = "PCM_DROP"
  /\ queue' = Tail(queue)
  /\ timer' = [ms |-> 0, exp |-> FALSE]
  /\ state' = "IDLE"
  /\ Goto("select")
  /\ Calls(0, 0, 1)
  /\ UNCHANGED <<tvars, spk_fd, mic_fd, delay, bufvars,
                 initialize_msbc, asrs, io, drain_wait, cancel, envvars>>

\* SigPcmDrop that leaves the switch with break: the iteration goes on to the
\* timer and the I/O handlers
SigPcmDrop_break ==
  /\ pc = "sig" /\ queue # <<>> /\ Head(queue) = "PCM_DROP"
  /\ queue' = Tail(queue)
  /\ timer' = [ms |-> 0, exp |-> FALSE]
  /\ \E p \in AfterSignal : Goto(p)
  /\ Calls(0, 0, 1)
  /\ UNCHANGED <<state, tvars, spk_fd, mic_fd, delay, bufvars,
                 initialize_msbc, asrs, io, drain_wait, cancel, envvars>>

\* lines 377-380
SigPcmDrop ==
  /\ SigGuard("PCM_DROP")
  /\ queue' = Tail(queue)
  /\ timer' = timerfd_settime(sco_cancel_timer)
  /\ Goto("select")
  /\ Calls(0, 0, 1)
  /\ UNCHANGED <<state, tvars, spk_fd, mic_fd, delay, bufvars,
                 initialize_msbc, asrs, io, drain_wait, cancel, envvars>>

\* ------------------------------------------------------------------ sco_thread: timer
\* line 389: read(timer_fd) returns once an expiry is pending
TimerGuard == pc = "timer" /\ timer.exp

\* TimerRead for a timer with an interval: armed again once the expiry was read
TimerRead_periodic == [ms |-> SCO_DRAIN_TIMEOUT, exp |-> FALSE]

\* the timer after the expiry was read: one-shot, so disarmed
TimerRead == [ms |-> 0, exp |-> FALSE]

\* lines 395-399: the drain is complete
TimerDraining ==
  /\ TimerGuard
  /\ state = "DRAINING"
  /\ timer' = TimerRead
  /\ state' = "RUNNING"
  /\ drain_wait' = FALSE
  /\ Goto("select")
  /\ Calls(0, 1, 0)
  /\ UNCHANGED <<tvars, spk_fd, mic_fd, delay, queue, bufvars,
                 initialize_msbc, asrs, io, cancel, envvars>>

\* lines 400-404: the linger time is over. The expiry is read; for an Audio Gateway
\* the handler reads spk_pcm.fd and, when that is -1, goes on to the read of
\* mic_pcm.fd; otherwise the iteration ends in LINGER with the timer disarmed
TimerLinger ==
  /\ TimerGuard
  /\ state = "LINGER"
  /\ timer' = TimerRead
  /\ IF ProfileAG /\ sco_pcm_is_closed(spk_fd)
     THEN /\ pc' = "linger_mic"
          /\ UNCHANGED <<pfds, rev>>
     ELSE Goto("select")
  /\ Calls(0, 0, 0)
  /\ UNCHANGED <<state, tvars, spk_fd, mic_fd, delay, queue, bufvars,
                 initialize_msbc, asrs, io, drain_wait, cancel, envvars>>

\* lines 405-407: mic_pcm.fd is read; when it is -1 too the state becomes CLOSING
\* and the thread goes on to sco_release_bt(), where it waits for t->mutex;
\* otherwise the iteration ends
TimerLingerMic ==
  /\ pc = "linger_mic"
  /\ IF sco_pcm_is_closed(mic_fd)
     THEN /\ state' = "CLOSING"
          /\ pc' = "linger_release"
          /\ UNCHANGED <<pfds, rev>>
     ELSE /\ state' = state
          /\ Goto("select")
  /\ Calls(0, 0, 0)
  /\ UNCHANGED <<tvars, spk_fd, mic_fd, delay, timer, queue, bufvars,
                 initialize_msbc, asrs, io, drain_wait, cancel, envvars>>

\* line 408: sco_release_bt() (lines 59-61) once t->mutex is free, whatever the PCM
\* descriptors are by now
TimerLingerRelease ==
  /\ pc = "linger_release"
  /\ mutex_lock
  /\ bt_fd' = release
  /\ pc' = "linger_timer"
  /\ Calls(1, 0, 0)
  /\ UNCHANGED <<state, mtu_read, mtu_write, spk_fd, mic_fd, delay, timer, queue, pfds, rev,
                 bufvars, initialize_msbc, asrs, io, drain_wait, cancel, envvars>>

\* lines 409-411: the close timer is armed and the iteration ends
TimerLingerClose ==
  /\ pc = "linger_timer"
  /\ timer' = timerfd_settime(sco_start_timer(SCO_CLOSE_TIMEOUT))
  /\ Goto("select")
  /\ Calls(0, 0, 0)
  /\ UNCHANGED <<state, tvars, spk_fd, mic_fd, delay, queue, bufvars,
                 initialize_msbc, asrs, io, drain_wait, cancel, envvars>>

\* lines 412-417: CLOSING becomes IDLE, an expiry in any other state is ignored;
\* the break goes on to the I/O handlers
TimerClosing ==
  /\ TimerGuard
  /\ state \in {"CLOSING", "IDLE", "RUNNING"}
  /\ timer' = TimerRead
  /\ state' = IF state = "CLOSING" THEN "IDLE" ELSE state
  /\ \E p \in AfterTimer : Goto(p)
  /\ asrs' = asrs_check(asrs)
  /\ Calls(0, 0, 0)
  /\ UNCHANGED <<tvars, spk_fd, mic_fd, delay, queue, bufvars,
                 initialize_msbc, io, drain_wait, cancel, envvars>>

\* lines 389-393: the read fails (no expiry is pending any more), the thread ends
TimerFail ==
  /\ pc = "timer"
  /\ ~timer.exp
  /\ timer' = timerfd_settime(sco_cancel_timer)
  /\ Goto("exit")
  /\ Calls(0, 0, 0)
  /\ UNCHANGED <<state, tvars, spk_fd, mic_fd, delay, queue, bufvars,
                 initialize_msbc, asrs, io, drain_wait, cancel, envvars>>

\* ------------------------------------------------------------------ sco_thread: SCO socket
\* PeerClosed with every error but EINTR taken for a closed link
PeerClosed_anyerror == {"0", "ECONNABORTED", "ECONNRESET", "EIO"}

\* errno values of a failed read or write that mean the peer closed the link
PeerClosed == {"0", "ECONNABORTED", "ECONNRESET"}

\* what read(fd, buffer, buffer_len) or write(fd, buffer, buffer_len) on the SCO socket
\* may return: `len` bytes moved (a call for 0 bytes returns 0 with errno 0 also
\* when the peer moves no data), an interrupted or failed call, or the link closed by
\* the peer; buffer_len, set before the retry label, is kept for the next attempt
ScoResults(len, buffer_len) ==
  (IF traffic \/ len = 0
   THEN {[len |-> len, errno |-> "0", buffer_len |-> buffer_len]} ELSE {})
    \cup {[len |-> -1, errno |-> e, buffer_len |-> buffer_len] : e \in {"EINTR", "EIO"}}
    \cup (IF MayFail
          THEN {[len |-> 0, errno |-> "0", buffer_len |-> buffer_len]}
                 \cup {[len |-> -1, errno |-> e, buffer_len |-> buffer_len] :
                         e \in {"ECONNABORTED", "ECONNRESET"}}
          ELSE {})

\* the faults among the results
ScoFault(r) == r.len <= 0 /\ r.errno \in PeerClosed

\* lines 430-448: the buffer is chosen, then read() is called (again after EINTR)
ScoRead ==
  /\ pc = "sco_read"
  /\ LET first == io.errno # "EINTR"
         in1 == IF first /\ codec = "CVSD" /\ mic_fd = NOFD THEN ffb_rewind(bt_in) ELSE bt_in
         buffer_len == IF ~first THEN io.buffer_len
                       ELSE IF codec = "MSBC" THEN ffb_len_in(msbc.dec_data, MsbcDataSize)
                       ELSE ffb_len_in(in1, BufSize)
     IN /\ bt_in' = in1
        /\ io' \in ScoResults(Min(mtu_read, buffer_len), buffer_len)
  /\ nevents' = IF ScoFault(io') /\ MayFail THEN nevents + 1 ELSE nevents
  /\ Goto("sco_read_done")
  /\ Calls(0, 0, 0)
  /\ UNCHANGED <<state, tvars, spk_fd, mic_fd, delay, timer, queue, bt_out, msbc,
                 initialize_msbc, asrs, drain_wait, cancel, profile, codec, traffic, dpc, mutex, dispvars>>

\* lines 448-477: the result of the read
ScoReadDone ==
  /\ pc = "sco_read_done"
  /\ (io.len <= 0 /\ io.errno \in PeerClosed) => mutex_lock
  /\ IF io.len <= 0
     THEN /\ Goto(IF io.errno = "EINTR" THEN "sco_read" ELSE "select")
          /\ io' = IF io.errno = "EINTR" THEN io ELSE NoIo
          /\ IF io.errno \in PeerClosed
             THEN bt_fd' = release /\ Calls(1, 0, 0)
             ELSE bt_fd' = bt_fd /\ Calls(0, 0, 0)
          /\ UNCHANGED <<bt_in, msbc>>
     ELSE /\ \E p \in AfterScoRead : Goto(p)
          /\ io' = NoIo
          /\ IF mic_fd # NOFD
             THEN IF codec = "MSBC"
                  THEN /\ msbc' = [msbc EXCEPT !.dec_data = ffb_seek(@, io.len)]
                       /\ bt_in' = bt_in
                  ELSE /\ bt_in' = ffb_seek(bt_in, io.len)
                       /\ msbc' = msbc
             ELSE UNCHANGED <<bt_in, msbc>>
          /\ bt_fd' = bt_fd
          /\ Calls(0, 0, 0)
  /\ UNCHANGED <<state, mtu_read, mtu_write, spk_fd, mic_fd, delay, timer, queue,
                 bt_out, initialize_msbc, asrs, drain_wait, cancel, envvars>>

\* lines 480-483: POLLERR or POLLHUP on the SCO socket
ScoPollErr ==
  /\ pc = "sco_read"
  /\ io = NoIo
  /\ mutex_lock
  /\ MayFail
  /\ nevents' = nevents + 1
  /\ bt_fd' = release
  /\ \E p \in AfterScoRead : Goto(p)
  /\ Calls(1, 0, 0)
  /\ UNCHANGED <<state, mtu_read, mtu_write, spk_fd, mic_fd, delay, timer, queue,
                 bufvars, initialize_msbc, asrs, io, drain_wait, cancel, profile, codec, traffic, dpc, mutex, dispvars>>

\* lines 492-508: buffer_len is read from mtu_write (lines 496, 501), then write() of
\* buffer_len bytes is called; after EINTR line 511 goes back to the label of line 506
\* and the call is repeated with the length read before
ScoWrite ==
  /\ pc = "sco_write"
  /\ LET buffer_len == IF io.errno = "EINTR" THEN io.buffer_len ELSE mtu_write
     IN io' \in ScoResults(buffer_len, buffer_len)
  /\ nevents' = IF ScoFault(io') /\ MayFail THEN nevents + 1 ELSE nevents
  /\ Goto("sco_write_done")
  /\ Calls(0, 0, 0)
  /\ UNCHANGED <<state, tvars, spk_fd, mic_fd, delay, timer, queue, bufvars,
                 initialize_msbc, asrs, drain_wait, cancel, profile, codec, traffic, dpc, mutex, dispvars>>

\* ScoWriteDone that takes a link closed by the peer for any other failed write
ScoWriteDone_norelease ==
  /\ pc = "sco_write_done"
  /\ IF io.len <= 0
     THEN /\ Goto(IF io.errno = "EINTR" THEN "sco_write" ELSE "select")
          /\ bt_fd' = bt_fd /\ Calls(0, 0, 0)
          /\ UNCHANGED <<bt_out, msbc>>
     ELSE /\ \E p \in AfterScoWrite : Goto(p)
          /\ IF codec = "MSBC"
             THEN /\ \E b \in ffb_shift_outcomes(msbc.enc_data, io.len) :
                       msbc' = [msbc EXCEPT !.enc_data = b]
                  /\ bt_out' = bt_out
             ELSE /\ bt_out' \in ffb_shift_outcomes(bt_out, io.len)
                  /\ msbc' = msbc
          /\ bt_fd' = bt_fd
          /\ Calls(0, 0, 0)
  /\ io' = IF io.len <= 0 /\ io.errno = "EINTR" THEN io
           ELSE [len |-> 0, errno |-> "none", buffer_len |-> 0]
  /\ UNCHANGED <<state, mtu_read, mtu_write, spk_fd, mic_fd, delay, timer, queue,
                 bt_in, initialize_msbc, asrs, drain_wait, cancel, envvars>>

\* lines 508-532: the result of the write. After EINTR the call is made again with
\* the buffer and the length it had (io is kept); after a write the buffer is
\* shifted by what was written, which may be more than it holds when the length
\* was read from an MTU stored after the loop head made its test
ScoWriteDone ==
  /\ pc = "sco_write_done"
  /\ (io.len <= 0 /\ io.errno \in PeerClosed) => mutex_lock
  /\ IF io.len <= 0
     THEN /\ Goto(IF io.errno = "EINTR" THEN "sco_write" ELSE "select")
          /\ IF io.errno \in PeerClosed
             THEN bt_fd' = release /\ Calls(1, 0, 0)
             ELSE bt_fd' = bt_fd /\ Calls(0, 0, 0)
          /\ UNCHANGED <<bt_out, msbc>>
     ELSE /\ \E p \in AfterScoWrite : Goto(p)
          /\ IF codec = "MSBC"
             THEN /\ \E b \in ffb_shift_outcomes(msbc.enc_data, io.len) :
                       msbc' = [msbc EXCEPT !.enc_data = b]
                  /\ bt_out' = bt_out
             ELSE /\ bt_out' \in ffb_shift_outcomes(bt_out, io.len)
                  /\ msbc' = msbc
          /\ bt_fd' = bt_fd
          /\ Calls(0, 0, 0)
  /\ io' = IF io.len <= 0 /\ io.errno = "EINTR" THEN io ELSE NoIo
  /\ UNCHANGED <<state, mtu_read, mtu_write, spk_fd, mic_fd, delay, timer, queue,
                 bt_in, initialize_msbc, asrs, drain_wait, cancel, envvars>>

\* ------------------------------------------------------------------ sco_thread: PCM FIFOs
\* ba_transport_thread_send_signal(th, sig)
send_signal(q, sig) == Append(q, sig)

\* what ba_transport_pcm_read() may return for a request of `samples` samples:
\* all of them, -1 with EAGAIN (the client has written nothing yet), or 0 (the
\* client closed the FIFO)
PcmReadResults(samples) ==
  (IF traffic \/ samples = 0 THEN {samples} ELSE {})
    \cup {-1}
    \cup (IF MayFail THEN {0} ELSE {})

\* what ba_transport_pcm_write() may return: all samples written, 0 or -1
PcmWriteResults(samples) ==
  (IF traffic \/ samples = 0 THEN {samples} ELSE {})
    \cup (IF MayFail THEN {0, -1} ELSE {})

\* the faults among the results
PcmFault(samples, request) == samples = -1 \/ (samples = 0 /\ request # 0)

\* lines 536-576: read from the speaker PCM into the encoder input
PcmRead ==
  /\ pc = "pcm_read"
  /\ LET request == IF codec = "MSBC" THEN ffb_len_in(msbc.enc_pcm, MsbcPcmSize)
                    ELSE ffb_len_in(bt_out, BufSize) \div 2
     IN \E samples \in PcmReadResults(request) :
          /\ nevents' = IF samples = 0 /\ request # 0 THEN nevents + 1 ELSE nevents
          /\ IF samples <= 0
             THEN /\ queue' = IF samples = 0 THEN send_signal(queue, "PCM_CLOSE") ELSE queue
                  /\ Goto("select")
                  /\ UNCHANGED <<bt_out, msbc>>
             ELSE /\ queue' = queue
                  /\ \E p \in AfterPcmRead : Goto(p)
                  /\ IF codec = "MSBC"
                     THEN /\ msbc' = [msbc EXCEPT !.enc_pcm = ffb_seek(@, samples)]
                          /\ bt_out' = bt_out
                     ELSE /\ bt_out' = ffb_seek(bt_out, samples * 2)
                          /\ msbc' = msbc
  /\ Calls(0, 0, 0)
  /\ UNCHANGED <<state, tvars, spk_fd, mic_fd, delay, timer, bt_in,
                 initialize_msbc, asrs, io, drain_wait, cancel, profile, codec, traffic, dpc, mutex, dispvars>>

\* lines 536-576 with a short read: ba_transport_pcm_read() returns fewer samples
\* than were asked for (the client has written that many so far), at least one
PcmReadPartial ==
  /\ pc = "pcm_read"
  /\ traffic
  /\ LET request == IF codec = "MSBC" THEN ffb_len_in(msbc.enc_pcm, MsbcPcmSize)
                    ELSE ffb_len_in(bt_out, BufSize) \div 2
     IN \E samples \in 1..(request - 1) :
          IF codec = "MSBC"
          THEN /\ msbc' = [msbc EXCEPT !.enc_pcm = ffb_seek(@, samples)]
               /\ bt_out' = bt_out
          ELSE /\ bt_out' = ffb_seek(bt_out, samples * 2)
               /\ msbc' = msbc
  /\ \E p \in AfterPcmRead : Goto(p)
  /\ Calls(0, 0, 0)
  /\ UNCHANGED <<state, tvars, spk_fd, mic_fd, delay, timer, queue, bt_in,
                 initialize_msbc, asrs, io, drain_wait, cancel, envvars>>

\* PcmPollErr that releases the speaker PCM and tells nobody
PcmPollErr_nosignal ==
  /\ pc = "pcm_read"
  /\ MayFail
  /\ nevents' = nevents + 1
  /\ spk_fd' = NOFD
  /\ \E p \in AfterPcmRead : Goto(p)
  /\ Calls(0, 0, 0)
  /\ UNCHANGED <<state, tvars, mic_fd, delay, timer, queue, bufvars,
                 initialize_msbc, asrs, io, drain_wait, cancel, profile, codec, traffic, dpc, mutex, dispvars>>

\* lines 577-581: POLLERR or POLLHUP on the speaker PCM
PcmPollErr ==
  /\ pc = "pcm_read"
  /\ MayFail
  /\ nevents' = nevents + 1
  /\ spk_fd' = NOFD
  /\ queue' = send_signal(queue, "PCM_CLOSE")
  /\ \E p \in AfterPcmRead : Goto(p)
  /\ Calls(0, 0, 0)
  /\ UNCHANGED <<state, tvars, mic_fd, delay, timer, bufvars,
                 initialize_msbc, asrs, io, drain_wait, cancel, profile, codec, traffic, dpc, mutex, dispvars>>

\* lines 583-622: write the decoder output to the microphone PCM; the shift of
\* lines 608-619 is made with whatever the write returned, -1 included
PcmWrite ==
  /\ pc = "pcm_write"
  /\ LET request == IF codec = "MSBC" THEN ffb_len_out(msbc.dec_pcm)
                    ELSE ffb_len_out(bt_in) \div 2
     IN \E samples \in PcmWriteResults(request) :
          /\ nevents' = IF PcmFault(samples, request) THEN nevents + 1 ELSE nevents
          /\ queue' = IF samples = 0 THEN send_signal(queue, "PCM_CLOSE") ELSE queue
          /\ IF codec = "MSBC"
             THEN /\ \E b \in ffb_shift_outcomes(msbc.dec_pcm, samples) :
                       msbc' = [msbc EXCEPT !.dec_pcm = b]
                  /\ bt_in' = bt_in
             ELSE /\ bt_in' \in ffb_shift_outcomes(bt_in, samples * 2)
                  /\ msbc' = msbc
  /\ Goto("pace")
  /\ Calls(0, 0, 0)
  /\ UNCHANGED <<state, tvars, spk_fd, mic_fd, delay, timer, bt_out,
                 initialize_msbc, asrs, io, drain_wait, cancel, profile, codec, traffic, dpc, mutex, dispvars>>

\* ------------------------------------------------------------------ sco_thread: pacing
\* Pace that advances the synchronizer by the bytes of a packet, not by its samples
Pace_bytes ==
  /\ pc = "pace"
  /\ IF codec = "MSBC"
     THEN IF msbc.enc_frames > 0
          THEN /\ asrs' = asrsync_sync(asrs, msbc.enc_frames * MSBC_CODESAMPLES)
               /\ msbc' = [msbc EXCEPT !.enc_frames = 0]
               /\ CallsSync(msbc.enc_frames * MSBC_CODESAMPLES)
          ELSE /\ UNCHANGED <<asrs, msbc>>
               /\ CallsSync(0)
     ELSE /\ asrs' = asrsync_sync(asrs, mtu_write)
          /\ msbc' = msbc
          /\ CallsSync(mtu_write)
  /\ \E d \in Delays : delay' = [spk |-> d, mic |-> d]
  /\ Goto("select")
  /\ UNCHANGED <<state, tvars, spk_fd, mic_fd, timer, queue, bt_in, bt_out,
                 initialize_msbc, io, drain_wait, cancel, envvars>>

\* lines 624-641: keep the transfer at a constant bit rate (CVSD: asrsync_sync() with
\* t->mtu_write / sizeof(int16_t) frames; mSBC: with enc_frames * MSBC_CODESAMPLES
\* frames when enc_frames > 0, and enc_frames = 0), then publish the busy delay
\* to both PCMs
Pace ==
  /\ pc = "pace"
  /\ IF codec = "MSBC"
     THEN IF msbc.enc_frames > 0
          THEN /\ asrs' = asrsync_sync(asrs, msbc.enc_frames * MSBC_CODESAMPLES)
               /\ msbc' = [msbc EXCEPT !.enc_frames = 0]
               /\ CallsSync(msbc.enc_frames * MSBC_CODESAMPLES)
          ELSE /\ UNCHANGED <<asrs, msbc>>
               /\ CallsSync(0)
     ELSE /\ asrs' = asrsync_sync(asrs, mtu_write \div 2)
          /\ msbc' = msbc
          /\ CallsSync(mtu_write \div 2)
  /\ \E d \in Delays : delay' = [spk |-> d, mic |-> d]
  /\ Goto("select")
  /\ UNCHANGED <<state, tvars, spk_fd, mic_fd, timer, queue, bt_in, bt_out,
                 initialize_msbc, io, drain_wait, cancel, envvars>>

\* all steps of sco_thread
Thread ==
  \/ Select \/ SelectTest \/ SelectFd \/ SelectReinit \/ SelectInitFail
  \/ PollReturn \/ PollEintr \/ PollFail
  \/ SigPing \/ SigPcmOpen \/ SigPcmClose \/ SigPcmCloseMic \/ SigPcmSync \/ SigPcmDrop \/ SigOther
  \/ TimerDraining \/ TimerLinger \/ TimerLingerMic \/ TimerLingerRelease \/ TimerLingerClose
  \/ TimerClosing \/ TimerFail
  \/ ScoRead \/ ScoReadDone \/ ScoPollErr \/ ScoWrite \/ ScoWriteDone
  \/ PcmRead \/ PcmReadPartial \/ PcmPollErr \/ PcmWrite
  \/ Pace

\* ------------------------------------------------------------------ environment
\* the kernel timer fires
TimerExpire ==
  /\ timer.ms # 0
  /\ ~timer.exp
  /\ timer' = [timer EXCEPT !.exp = TRUE]
  /\ UNCHANGED <<pc, state, tvars, spk_fd, mic_fd, delay, queue, pfds, rev, bufvars,
                 initialize_msbc, asrs, io, released, synced, flushed, signal, drain_wait, cancel, paced, envvars>>

\* the control plane sends a signal to the I/O thread
CtlSignal ==
  /\ nevents < MaxEvents
  /\ Len(queue) < MaxQueue
  /\ \E sig \in Signals : queue' = send_signal(queue, sig)
  /\ nevents' = nevents + 1
  /\ UNCHANGED <<pc, state, tvars, spk_fd, mic_fd, delay, timer, pfds, rev, bufvars,
                 initialize_msbc, asrs, io, released, synced, flushed, signal, drain_wait,
                 cancel, paced, profile, codec, traffic, dpc, mutex, dispvars>>

\* the control plane opens or closes a PCM endpoint
CtlPcm ==
  /\ \/ spk_fd' \in {NOFD, PcmFd.spk} \ {spk_fd} /\ mic_fd' = mic_fd
     \/ mic_fd' \in {NOFD, PcmFd.mic} \ {mic_fd} /\ spk_fd' = spk_fd
  /\ UNCHANGED <<pc, state, tvars, delay, timer, queue, pfds, rev, bufvars,
                 initialize_msbc, asrs, io, released, synced, flushed, signal, drain_wait, cancel, paced, envvars>>

\* the control plane releases the transport (sco_release_bt semantics: under t->mutex)
CtlRelease ==
  /\ bt_fd # NOFD
  /\ mutex_lock
  /\ bt_fd' = release
  /\ UNCHANGED <<pc, state, mtu_read, mtu_write, spk_fd, mic_fd, delay, timer, queue, pfds,
                 rev, bufvars, initialize_msbc, asrs, io, released, synced, flushed,
                 signal, drain_wait, cancel, paced, envvars>>

\* ------------------------------------------------------------------ dispatcher
\* line 120: accept() returns the lowest descriptor that is not open in the process:
\* never the one the transport still holds, and the number of a released link again
accept == CHOOSE fd \in BtFds \ {bt_fd} : \A other \in BtFds \ {bt_fd} : fd <= other

\* lines 153-164: PING to the speaker thread, then PING to the microphone thread
\* and the cleanup: the references are given back, `fd` is -1 by then and nothing
\* is closed
DispPing ==
  /\ dpc \in {"ping_spk", "ping_mic"}
  /\ queue' = send_signal(queue, "PING")
  /\ dlog' = Append(dlog, dpc)
  /\ refs' = IF dpc = "ping_spk" THEN refs ELSE dispatcher_unref(refs)
  /\ dpc' = IF dpc = "ping_spk" THEN "ping_mic" ELSE "poll"
  /\ UNCHANGED <<pc, state, tvars, spk_fd, mic_fd, delay, timer, pfds, rev, bufvars,
                 initialize_msbc, asrs, io, released, synced, flushed, signal, drain_wait,
                 cancel, paced, profile, codec, nevents, traffic, mutex, dfd, sco_dispatcher, ndisp,
                 setup_ret>>

\* ------------------------------------------------------------------ dispatcher, step by step
\* what a step of the dispatcher or of the adapter setup leaves alone
threadvars == <<pc, state, spk_fd, mic_fd, delay, timer, pfds, rev, bufvars, initialize_msbc,
                asrs, io, released, synced, flushed, signal, drain_wait, cancel, paced, profile,
                codec, traffic>>

\* lines 105-112: a link comes in, poll returns
DispPoll ==
  /\ dpc = "poll"
  /\ nevents < MaxEvents
  /\ nevents' = nevents + 1
  /\ dpc' = "accept"
  /\ UNCHANGED <<threadvars, tvars, queue, mutex, dispvars>>

\* lines 105-109 and 166-169: poll fails, the dispatcher ends
DispPollFail ==
  /\ dpc = "poll"
  /\ MayFail
  /\ nevents' = nevents + 1
  /\ dpc' = "exit"
  /\ UNCHANGED <<threadvars, tvars, queue, mutex, dispvars>>

\* lines 114-123: accept() gives the descriptor of the link, or fails
DispAcceptFd ==
  /\ dpc = "accept"
  /\ \E ok \in BOOLEAN :
       /\ dfd' = IF ok THEN accept ELSE NOFD
       /\ dpc' = IF ok THEN "lookup_device" ELSE "cleanup"
  /\ dlog' = <<>>
  /\ refs' = [refs EXCEPT !.d = FALSE, !.t = FALSE]
  /\ UNCHANGED <<threadvars, tvars, queue, nevents, mutex, sco_dispatcher, ndisp, setup_ret>>

\* DispLookup for a dispatcher that gives up when a lookup fails
DispLookup_fatal ==
  /\ dpc \in {"lookup_device", "lookup_transport"}
  /\ \E found \in BOOLEAN :
       /\ dpc' = IF ~found THEN "exit"
                 ELSE IF dpc = "lookup_device" THEN "lookup_transport" ELSE "voice"
       /\ refs' = IF ~found THEN refs
                  ELSE IF dpc = "lookup_device" THEN ba_device_lookup(refs)
                  ELSE ba_transport_lookup(refs)
  /\ UNCHANGED <<threadvars, tvars, queue, nevents, mutex, dfd, dlog, sco_dispatcher, ndisp,
                 setup_ret>>

\* lines 127-135: ba_device_lookup(), then ba_transport_lookup()
DispLookup ==
  /\ dpc \in {"lookup_device", "lookup_transport"}
  /\ \E found \in BOOLEAN :
       /\ dpc' = IF ~found THEN "cleanup"
                 ELSE IF dpc = "lookup_device" THEN "lookup_transport" ELSE "voice"
       /\ refs' = IF ~found THEN refs
                  ELSE IF dpc = "lookup_device" THEN ba_device_lookup(refs)
                  ELSE ba_transport_lookup(refs)
  /\ UNCHANGED <<threadvars, tvars, queue, nevents, mutex, dfd, dlog, sco_dispatcher, ndisp,
                 setup_ret>>

\* DispVoice for a dispatcher that hands the link over without the one-byte read
DispVoice_noread ==
  /\ dpc = "voice"
  /\ IF codec = "MSBC"
     THEN /\ dlog' = Append(dlog, "setsockopt")
          /\ \E ok \in BOOLEAN : dpc' = IF ok THEN "lock" ELSE "cleanup"
     ELSE /\ dlog' = dlog
          /\ dpc' = "lock"
  /\ UNCHANGED <<threadvars, tvars, queue, nevents, mutex, dfd, sco_dispatcher, ndisp,
                 setup_ret, refs>>

\* lines 138-143: for mSBC, setsockopt(fd, SOL_BLUETOOTH, BT_VOICE, TRANSPARENT)
DispVoice ==
  /\ dpc = "voice"
  /\ IF codec = "MSBC"
     THEN /\ dlog' = Append(dlog, "setsockopt")
          /\ \E ok \in BOOLEAN : dpc' = IF ok THEN "authorize" ELSE "cleanup"
     ELSE /\ dlog' = dlog
          /\ dpc' = "authorize"
  /\ UNCHANGED <<threadvars, tvars, queue, nevents, mutex, dfd, sco_dispatcher, ndisp,
                 setup_ret, refs>>

\* lines 144-147: read(fd, &voice, 1) authorizes the deferred connection
DispAuthorize ==
  /\ dpc = "authorize"
  /\ dlog' = Append(dlog, "read")
  /\ \E ok \in BOOLEAN : dpc' = IF ok THEN "lock" ELSE "cleanup"
  /\ UNCHANGED <<threadvars, tvars, queue, nevents, mutex, dfd, sco_dispatcher, ndisp,
                 setup_ret, refs>>

\* DispLock for a sco_refresh_bt() that does not take t->mutex
DispLock_nomutex ==
  /\ dpc = "lock"
  /\ dpc' = "release"
  /\ UNCHANGED <<threadvars, tvars, queue, nevents, mutex, dispvars>>

\* line 66: sco_refresh_bt() takes t->mutex
DispLock ==
  /\ dpc = "lock"
  /\ mutex_lock
  /\ mutex' = "dispatcher"
  /\ dpc' = "release"
  /\ UNCHANGED <<threadvars, tvars, queue, nevents, dispvars>>

\* line 68: t->release(t)
DispRelease ==
  /\ dpc = "release"
  /\ bt_fd' = release
  /\ dpc' = "store_fd"
  /\ UNCHANGED <<threadvars, mtu_read, mtu_write, queue, nevents, mutex, dispvars>>

\* line 69: t->bt_fd = sco_fd
DispStoreFd ==
  /\ dpc = "store_fd"
  /\ bt_fd' = dfd
  /\ dpc' = "store_mtu"
  /\ UNCHANGED <<threadvars, mtu_read, mtu_write, queue, nevents, mutex, dispvars>>

\* line 70: t->mtu_read = t->mtu_write = hci_sco_get_mtu(sco_fd), two stores:
\* t->mtu_write first, t->mtu_read second
DispStoreMtu ==
  /\ dpc \in {"store_mtu", "store_mtu_read"}
  /\ IF dpc = "store_mtu"
     THEN /\ mtu_write' = hci_sco_get_mtu(codec)
          /\ mtu_read' = mtu_read
          /\ dpc' = "store_mtu_read"
     ELSE /\ mtu_read' = hci_sco_get_mtu(codec)
          /\ mtu_write' = mtu_write
          /\ dpc' = "unlock"
  /\ UNCHANGED <<threadvars, bt_fd, queue, nevents, mutex, dispvars>>

\* lines 71-72: sco_refresh_bt() gives t->mutex back and returns: the link is
\* attached
DispUnlock ==
  /\ dpc = "unlock"
  /\ mutex' = "none"
  /\ dlog' = Append(dlog, "attach")
  /\ dpc' = "clear_fd"
  /\ UNCHANGED <<threadvars, tvars, queue, nevents, dfd, sco_dispatcher, ndisp, setup_ret, refs>>

\* line 151: fd = -1, the dispatcher forgets the descriptor it handed over
DispClearFd ==
  /\ dpc = "clear_fd"
  /\ dfd' = NOFD
  /\ dpc' = "ping_spk"
  /\ UNCHANGED <<threadvars, tvars, queue, nevents, mutex, dlog, sco_dispatcher, ndisp,
                 setup_ret, refs>>

\* lines 156-164: after a failure, close(fd) when a link was accepted, then poll again
DispCleanup ==
  /\ dpc = "cleanup"
  /\ refs' = dispatcher_unref(refs)
  /\ dlog' = IF dfd # NOFD THEN Append(dlog, "close") ELSE dlog
  /\ dfd' = NOFD
  /\ dpc' = "poll"
  /\ UNCHANGED <<threadvars, tvars, queue, nevents, mutex, sco_dispatcher, ndisp, setup_ret>>

\* lines 67-72: sco_refresh_bt(t, sco_fd) once it holds t->mutex
sco_refresh_bt == DispRelease \/ DispStoreFd \/ DispStoreMtu \/ DispUnlock

Dispatcher ==
  \/ DispPoll \/ DispPollFail \/ DispAcceptFd \/ DispLookup \/ DispVoice \/ DispAuthorize
  \/ DispLock \/ sco_refresh_bt \/ DispClearFd
  \/ DispPing \/ DispCleanup

\* ------------------------------------------------------------------ adapter setup
\* lines 82-101: the new thread opens the SCO socket of the adapter, defers the
\* connection setup and listens, or ends when one of the three fails
DispOpen ==
  /\ dpc = "open"
  /\ \E ok \in BOOLEAN : dpc' = IF ok THEN "poll" ELSE "exit"
  /\ UNCHANGED <<threadvars, tvars, queue, nevents, mutex, dispvars>>

\* SetupCreate for a setup that does not look at a->sco_dispatcher first
SetupCreate_unchecked ==
  /\ \E ret \in {0, -1} :
       /\ setup_ret' = [ret |-> ret, created |-> ret = 0]
       /\ sco_dispatcher' = IF ret = 0 THEN DISPATCHER_THREAD ELSE MAIN_THREAD
       /\ ndisp' = IF ret = 0 THEN ndisp + 1 ELSE ndisp
       /\ dpc' = IF ret = 0 THEN "open" ELSE dpc
  /\ UNCHANGED <<threadvars, tvars, queue, nevents, mutex, dfd, dlog, refs>>

\* lines 174-176: a dispatcher is recorded, the call returns 0
SetupSkip ==
  /\ sco_dispatcher # MAIN_THREAD
  /\ setup_ret' = [ret |-> 0, created |-> FALSE]
  /\ UNCHANGED <<threadvars, tvars, queue, nevents, mutex, dpc, dfd, dlog, sco_dispatcher,
                 ndisp, refs>>

\* lines 174-222: no dispatcher is recorded; pthread_create() starts one and stores
\* its identity in a->sco_dispatcher, or fails and a->sco_dispatcher is set back to
\* the main thread. (Lines 181-204 talk to the controller of a Broadcom chip only.)
SetupCreate ==
  /\ sco_dispatcher = MAIN_THREAD
  /\ \E ret \in {0, -1} :
       /\ setup_ret' = [ret |-> ret, created |-> ret = 0]
       /\ sco_dispatcher' = IF ret = 0 THEN DISPATCHER_THREAD ELSE MAIN_THREAD
       /\ ndisp' = IF ret = 0 THEN ndisp + 1 ELSE ndisp
       /\ dpc' = IF ret = 0 THEN "open" ELSE dpc
  /\ UNCHANGED <<threadvars, tvars, queue, nevents, mutex, dfd, dlog, refs>>

sco_setup_connection_dispatcher == SetupSkip \/ SetupCreate

Env ==
  \/ TimerExpire \/ CtlSignal \/ CtlPcm \/ CtlRelease
  \/ DispPoll \/ DispAcceptFd \/ DispLookup \/ DispVoice \/ DispAuthorize \/ DispLock
  \/ sco_refresh_bt \/ DispClearFd \/ DispPing \/ DispCleanup

Next == Thread \/ Env

Spec == Init /\ [][Next]_vars

\* ------------------------------------------------------------------ scenarios
\* The control scenario: signals, timer, PCM endpoints opening and closing, SCO
\* links attached and released; the peer and the PCM clients move no data, their
\* descriptors report end of stream, errors and hang-ups only.
InitCtl == Init /\ ~traffic

ThreadCtl ==
  \/ Select \/ SelectTest \/ SelectFd \/ SelectReinit \/ SelectInitFail
  \/ PollReturn \/ PollEintr \/ PollFail
  \/ SigPing \/ SigPcmOpen \/ SigPcmClose \/ SigPcmCloseMic \/ SigPcmSync \/ SigPcmDrop \/ SigOther
  \/ TimerDraining \/ TimerLinger \/ TimerLingerMic \/ TimerLingerRelease \/ TimerLingerClose
  \/ TimerClosing \/ TimerFail
  \/ ScoRead \/ ScoReadDone \/ ScoPollErr \/ ScoWrite \/ ScoWriteDone
  \/ PcmRead \/ PcmPollErr
  \/ Pace

NextCtl == ThreadCtl \/ Env

SpecCtl == InitCtl /\ [][NextCtl]_vars

\* The control scenario with a loop that keeps running and a timer that fires:
\* the thread takes a step whenever it can, an armed timer expires, and neither
\* poll nor a SCO read is interrupted (EINTR) for ever. The control plane, the
\* dispatcher and the peer stay free to act or not.
FairCtl ==
  /\ SpecCtl
  /\ WF_vars(ThreadCtl)
  /\ WF_vars(TimerExpire)
  /\ SF_vars(PollReturn)
  /\ SF_vars(ScoRead /\ io'.errno # "EINTR")

\* The dispatcher scenario: an adapter that is set up, its dispatcher taken step by
\* step (the calls it makes may fail), and a transport whose PCM endpoints stay
\* closed: sco_thread polls the link it is handed, the peer sends nothing and may
\* close the link, and the control plane may release it.
InitDisp == InitThread /\ ~traffic /\ DispNotSetUp /\ paced = 0

ThreadDisp ==
  \/ Select \/ SelectTest \/ SelectFd \/ SelectReinit
  \/ PollReturn \/ PollEintr
  \/ SigPing
  \/ ScoRead \/ ScoReadDone \/ ScoPollErr \/ ScoWrite \/ ScoWriteDone
  \/ Pace

NextDisp ==
  \/ ThreadDisp
  \/ SetupSkip \/ SetupCreate \/ DispOpen
  \/ Dispatcher
  \/ CtlRelease

SpecDisp == InitDisp /\ [][NextDisp]_vars

\* The gateway scenario: an Audio Gateway transport with codec CVSD whose thread
\* starts with a link attached, with data: PCM endpoints open and close, every
\* signal may be sent, the timers run, the peer and the PCM clients move data and
\* the peer may close the link. No further link comes in.
InitOrder ==
  /\ paced = 0
  /\ DispRunning
  /\ pc = "select"
  /\ cancel = PTHREAD_CANCEL_DISABLE
  /\ state = "IDLE"
  /\ profile = "AG"
  /\ codec = "CVSD"
  /\ bt_fd = 20
  /\ mtu_read = hci_sco_get_mtu(codec)
  /\ mtu_write = hci_sco_get_mtu(codec)
  /\ spk_fd = NOFD
  /\ mic_fd = NOFD
  /\ delay = [spk |-> 0, mic |-> 0]
  /\ timer = TimerOff
  /\ queue = <<>>
  /\ pfds = [i \in 1..4 |-> NOFD]
  /\ rev = NoRev
  /\ bt_in = 0
  /\ bt_out = 0
  /\ msbc = MsbcOff
  /\ initialize_msbc = TRUE
  /\ asrs = [frames |-> 0, rate |-> 0]
  /\ io = NoIo
  /\ nevents = 0
  /\ traffic = TRUE
  /\ released = 0
  /\ synced = 0
  /\ flushed = 0
  /\ signal = "NONE"
  /\ drain_wait = FALSE

ThreadOrder ==
  \/ Select \/ SelectTest \/ SelectFd
  \/ PollReturn \/ PollEintr \/ PollFail
  \/ SigPing \/ SigPcmOpen \/ SigPcmClose \/ SigPcmCloseMic \/ SigPcmSync \/ SigPcmDrop \/ SigOther
  \/ TimerDraining \/ TimerLinger \/ TimerLingerMic \/ TimerLingerRelease \/ TimerLingerClose
  \/ TimerClosing \/ TimerFail
  \/ ScoRead \/ ScoReadDone \/ ScoPollErr \/ ScoWrite \/ ScoWriteDone
  \/ PcmRead \/ PcmPollErr \/ PcmWrite
  \/ Pace

NextOrder ==
  \/ ThreadOrder
  \/ TimerExpire \/ CtlSignal \/ CtlPcm

SpecOrder == InitOrder /\ [][NextOrder]_vars

\* The transfer scenario: a headset-role transport (no linger) in state RUNNING with
\* a link attached and both PCM endpoints open; the peer and the PCM clients move
\* data and the peer may close the link. No further link comes in.
InitIo ==
  /\ paced = 0
  /\ pc = "select"
  /\ DispRunning
  /\ cancel = PTHREAD_CANCEL_DISABLE
  /\ state = "RUNNING"
  /\ profile = "HF"
  /\ codec \in Codecs
  /\ bt_fd = 20
  /\ mtu_read = hci_sco_get_mtu(codec)
  /\ mtu_write = hci_sco_get_mtu(codec)
  /\ spk_fd = PcmFd.spk
  /\ mic_fd = PcmFd.mic
  /\ delay = [spk |-> 0, mic |-> 0]
  /\ timer = TimerOff
  /\ queue = <<>>
  /\ pfds = [i \in 1..4 |-> NOFD]
  /\ rev = NoRev
  /\ bt_in = 0
  /\ bt_out = 0
  /\ msbc = MsbcOff
  /\ initialize_msbc = TRUE
  /\ asrs = [frames |-> 0, rate |-> 0]
  /\ io = NoIo
  /\ nevents = 0
  /\ traffic = TRUE
  /\ released = 0
  /\ synced = 0
  /\ flushed = 0
  /\ signal = "NONE"
  /\ drain_wait = FALSE

NextIo ==
  \/ Select \/ SelectTest \/ SelectFd \/ SelectReinit
  \/ PollReturn \/ PollEintr
  \/ SigPcmClose
  \/ ScoRead \/ ScoReadDone \/ ScoPollErr \/ ScoWrite \/ ScoWriteDone
  \/ PcmRead \/ PcmPollErr \/ PcmWrite
  \/ Pace

SpecIo == InitIo /\ [][NextIo]_vars

\* The close scenario (Audio Gateway): the dispatcher attached a link and sent its
\* two PINGs, a client opened a PCM and closed it again before the thread ran, and
\* up to MaxClose PCM_CLOSE signals were queued for that close. Nothing is reopened
\* and no further signal is sent; the peer sends no data and does not close the link.
MaxClose == 3

InitClose ==
  /\ paced = 0
  /\ pc = "select"
  /\ DispRunning
  /\ cancel = PTHREAD_CANCEL_DISABLE
  /\ state = "IDLE"
  /\ profile = "AG"
  /\ codec \in Codecs
  /\ bt_fd = 20
  /\ mtu_read = hci_sco_get_mtu(codec)
  /\ mtu_write = hci_sco_get_mtu(codec)
  /\ spk_fd = NOFD
  /\ mic_fd = NOFD
  /\ delay = [spk |-> 0, mic |-> 0]
  /\ timer = TimerOff
  /\ \E open \in {"PCM_OPEN", "PCM_RESUME"} : \E n \in 1..MaxClose :
       queue = <<"PING", "PING", open>> \o [i \in 1..n |-> "PCM_CLOSE"]
  /\ pfds = [i \in 1..4 |-> NOFD]
  /\ rev = NoRev
  /\ bt_in = 0
  /\ bt_out = 0
  /\ msbc = MsbcOff
  /\ initialize_msbc = TRUE
  /\ asrs = [frames |-> 0, rate |-> 0]
  /\ io = NoIo
  /\ nevents = MaxEvents
  /\ traffic = FALSE
  /\ released = 0
  /\ synced = 0
  /\ flushed = 0
  /\ signal = "NONE"
  /\ drain_wait = FALSE

ThreadClose ==
  \/ Select \/ SelectTest \/ SelectFd \/ SelectReinit
  \/ PollReturn
  \/ SigPing \/ SigPcmOpen \/ SigPcmClose \/ SigPcmCloseMic
  \/ TimerLinger \/ TimerLingerMic \/ TimerLingerRelease \/ TimerLingerClose \/ TimerClosing
  \/ ScoRead \/ ScoReadDone
  \/ Pace

NextClose == ThreadClose \/ TimerExpire

SpecClose == InitClose /\ [][NextClose]_vars

\* The linger scenario: the close scenario with PCM clients that come and go while
\* the thread runs: the control plane can open a PCM between the test of the PCM
\* descriptors in the LINGER case of the timer handler and the release that
\* follows it. The clients move no data.
ThreadLinger ==
  \/ Select \/ SelectTest \/ SelectFd \/ SelectReinit
  \/ PollReturn
  \/ SigPing \/ SigPcmOpen \/ SigPcmClose \/ SigPcmCloseMic
  \/ TimerLinger \/ TimerLingerMic \/ TimerLingerRelease \/ TimerLingerClose \/ TimerClosing
  \/ ScoRead \/ ScoReadDone
  \/ PcmRead
  \/ Pace

NextLinger == ThreadLinger \/ TimerExpire \/ CtlPcm

SpecLinger == InitClose /\ [][NextLinger]_vars

\* the close scenario with a loop that keeps running and a timer that fires
FairClose ==
  /\ SpecClose
  /\ WF_vars(ThreadClose)
  /\ WF_vars(TimerExpire)
  /\ SF_vars(ScoRead /\ io'.errno # "EINTR")

\* The playback scenario: a CVSD link is attached whose socket has an MTU from 1 up
\* to the capacity of the buffers, the speaker PCM is open and the microphone PCM
\* is closed; the client writes its samples in pieces of any size, the peer takes
\* and sends packets, no signal is sent and nothing fails.
ScoMtus == 1..BufSize

InitPlay ==
  /\ paced = 0
  /\ pc = "select"
  /\ DispRunning
  /\ cancel = PTHREAD_CANCEL_DISABLE
  /\ state = "RUNNING"
  /\ profile = "HF"
  /\ codec = "CVSD"
  /\ bt_fd = 20
  /\ mtu_read \in ScoMtus
  /\ mtu_write = mtu_read
  /\ spk_fd = PcmFd.spk
  /\ mic_fd = NOFD
  /\ delay = [spk |-> 0, mic |-> 0]
  /\ timer = TimerOff
  /\ queue = <<>>
  /\ pfds = [i \in 1..4 |-> NOFD]
  /\ rev = NoRev
  /\ bt_in = 0
  /\ bt_out = 0
  /\ msbc = MsbcOff
  /\ initialize_msbc = TRUE
  /\ asrs = [frames |-> 0, rate |-> 0]
  /\ io = NoIo
  /\ nevents = MaxEvents
  /\ traffic = TRUE
  /\ released = 0
  /\ synced = 0
  /\ flushed = 0
  /\ signal = "NONE"
  /\ drain_wait = FALSE

NextPlay ==
  \/ Select \/ SelectTest \/ SelectFd
  \/ PollReturn
  \/ SigPcmClose
  \/ ScoRead \/ ScoReadDone \/ ScoWrite \/ ScoWriteDone
  \/ PcmRead \/ PcmReadPartial
  \/ Pace

SpecPlay == InitPlay /\ [][NextPlay]_vars

\* The attach scenario: a transport just created, with both PCM endpoints closed,
\* whose thread runs while the dispatcher, taken step by step, accepts links and
\* hands them over; the peer takes and sends packets.
InitAttach ==
  /\ InitThread
  /\ DispRunning
  /\ paced = 0
  /\ profile = "HF"
  /\ traffic

ThreadAttach ==
  \/ Select \/ SelectTest \/ SelectFd \/ SelectReinit
  \/ PollReturn \/ PollEintr
  \/ SigPing
  \/ ScoRead \/ ScoReadDone \/ ScoWrite \/ ScoWriteDone
  \/ Pace

NextAttach == ThreadAttach \/ Dispatcher

SpecAttach == InitAttach /\ [][NextAttach]_vars

\* ------------------------------------------------------------------ types
TypeOK ==
  /\ state \in States
  /\ pc \in {"select", "poll", "sig", "timer", "sco_read", "sco_read_done", "sco_write",
             "sco_write_done", "pcm_read", "pcm_write", "pace", "close_mic", "linger_mic",
             "linger_release", "linger_timer", "exit"}
            \cup HeadReads
  /\ bt_fd \in BtFds \cup {NOFD}
  /\ timer.ms \in {0, SCO_DRAIN_TIMEOUT, SCO_LINGER_TIMEOUT, SCO_CLOSE_TIMEOUT}
  /\ nevents \in 0..MaxEvents
  /\ bt_in \in 0..BufSize
  /\ bt_out \in 0..BufSize

\* ------------------------------------------------------------------ C1
\* C1: t->sco.state is always one of IDLE, RUNNING, DRAINING, LINGER, CLOSING, and a
\* step changes it only in these ways: to RUNNING when PCM_OPEN or PCM_RESUME is
\* handled, from a state other than LINGER to LINGER when PCM_CLOSE is handled, to
\* DRAINING when PCM_SYNC is handled, and on a timer expiry from DRAINING to RUNNING,
\* from LINGER to CLOSING and from CLOSING to IDLE. Handling PING or PCM_DROP and a
\* timer expiry in IDLE or RUNNING leave the state as it is.
C1_StateTransitions ==
  [][/\ state' \in States
     /\ state' # state =>
          \/ /\ pc = "sig"
             /\ queue # <<>>
             /\ \/ Head(queue) \in {"PCM_OPEN", "PCM_RESUME"} /\ state' = "RUNNING"
                \/ Head(queue) = "PCM_SYNC" /\ state' = "DRAINING"
          \/ pc = "close_mic" /\ state # "LINGER" /\ state' = "LINGER"
          \/ /\ pc = "timer"
             /\ timer.exp
             /\ <<state, state'>> \in {<<"DRAINING", "RUNNING">>, <<"CLOSING", "IDLE">>}
          \/ pc = "linger_mic" /\ <<state, state'>> = <<"LINGER", "CLOSING">>
     /\ (pc' = "close_mic" /\ pc' # pc) => (pc = "sig" /\ queue # <<>> /\ Head(queue) = "PCM_CLOSE")
     /\ (pc' = "linger_mic" /\ pc' # pc) => (pc = "timer" /\ timer.exp /\ state = "LINGER")
     /\ (pc = "sig" /\ pc' # pc /\ Head(queue) \in {"PING", "PCM_DROP"}) => state' = state
     /\ (pc = "timer" /\ pc' # pc /\ state \in {"IDLE", "RUNNING"}) => state' = state
    ]_vars

\* the whole cycle was walked: poll reported the expiry of the close timer, the
\* timer handler ran in CLOSING and the iteration goes on in state IDLE
C1_Witness ==
  /\ state = "IDLE"
  /\ rev.tmr
  /\ pc = "pace"
  /\ timer = TimerOff

\* ------------------------------------------------------------------ C2
\* C2: a step of sco_thread that calls release() leaves bt_fd = -1, a release by the
\* control plane leaves bt_fd = -1, and a pass through the loop head during which
\* bt_fd is -1 (no attach came in between) polls with the descriptors 1, 2 and 3
\* all -1, whatever the codec: the pass starts with the three at -1, the stores to
\* descriptors 1 and 2 store the -1 they read from bt_fd, the lines of descriptor
\* 3 are left as soon as bt_fd is read as -1, and nothing else gives any of the
\* three a value.
C2_ReleaseDisablesDescriptors ==
  [][/\ (pc' # pc /\ released' = 1) => bt_fd' = NOFD
     /\ (pc' = pc /\ dpc' = dpc /\ bt_fd' # bt_fd) => bt_fd' = NOFD
     /\ pc = "select" => (pfds[1] = NOFD /\ pfds[2] = NOFD /\ pfds[3] = NOFD)
     /\ (pc = "sel_in_fd" /\ pc' # pc /\ bt_fd = NOFD) => pfds' = [pfds EXCEPT ![1] = NOFD]
     /\ (pc = "sel_out_fd" /\ pc' # pc /\ bt_fd = NOFD) => pfds' = [pfds EXCEPT ![2] = NOFD]
     /\ (pc = "sel_spk" /\ pc' # pc /\ bt_fd = NOFD) =>
          (pc' \notin {"sel_spk_mtu", "sel_spk_fd"} /\ pfds' = pfds)
     /\ pc' = "sel_spk_mtu" => pc \in {"sel_spk", "sel_spk_mtu"}
     /\ pc' = "sel_spk_fd" => pc \in {"sel_spk_mtu", "sel_spk_fd"}
     /\ (pfds'[1] \notin {NOFD, pfds[1]}) => pc = "sel_in_fd"
     /\ (pfds'[2] \notin {NOFD, pfds[2]}) => pc = "sel_out_fd"
     /\ (pfds'[3] \notin {NOFD, pfds[3]}) => pc = "sel_spk_fd"
    ]_vars

\* a link was attached and released again, the speaker PCM is open, and the next
\* pass polled none of the three descriptors
C2_Witness ==
  /\ pc = "poll"
  /\ bt_fd = NOFD
  /\ mtu_write # 0
  /\ spk_fd # NOFD
  /\ pfds[1] = NOFD /\ pfds[2] = NOFD /\ pfds[3] = NOFD

\* ------------------------------------------------------------------ C3
\* C3 as claimed: at every poll point, state LINGER implies that both PCM fds are -1
\* and that the profile is an Audio Gateway one.
C3_LingerPcmClosed ==
  (pc = "poll" /\ state = "LINGER") =>
    (spk_fd = NOFD /\ mic_fd = NOFD /\ profile \in BA_TRANSPORT_PROFILE_MASK_AG)

\* C3 amended: state LINGER implies an Audio Gateway profile, and LINGER is entered
\* only by the handler of PCM_CLOSE of an Audio Gateway, in the step in which it
\* reads mic_pcm.fd as -1, after an earlier step in which it read spk_pcm.fd as -1;
\* the handler changes neither descriptor. The two reads are made without a lock,
\* so the control plane may open a PCM between them and at any time afterwards,
\* while the state is LINGER.
C3_LingerEntry ==
  [][/\ state' = "LINGER" => profile' \in BA_TRANSPORT_PROFILE_MASK_AG
     /\ (state # "LINGER" /\ state' = "LINGER") =>
          /\ pc = "close_mic" /\ pc' = "select"
          /\ mic_fd = NOFD
          /\ <<spk_fd, mic_fd>>' = <<spk_fd, mic_fd>>
     /\ (pc' = "close_mic" /\ pc' # pc) =>
          /\ pc = "sig" /\ queue # <<>> /\ Head(queue) = "PCM_CLOSE"
          /\ profile \in BA_TRANSPORT_PROFILE_MASK_AG
          /\ spk_fd = NOFD
          /\ <<spk_fd, mic_fd>>' = <<spk_fd, mic_fd>>
    ]_vars

\* the thread polls in LINGER while a PCM is open: a client came back during the
\* linger time
C3_Witness ==
  /\ pc = "poll"
  /\ state = "LINGER"
  /\ timer.ms = SCO_LINGER_TIMEOUT
  /\ spk_fd # NOFD

\* ------------------------------------------------------------------ C4
\* C4: at every poll point, state DRAINING implies that the timer is armed with
\* SCO_DRAIN_TIMEOUT (armed, or expired and not yet read), also after a PCM_DROP
\* handled while DRAINING.
C4_DrainTimerArmed ==
  (pc = "poll" /\ state = "DRAINING") => timer.ms = SCO_DRAIN_TIMEOUT

\* ------------------------------------------------------------------ C5
\* C5: at every poll point, state CLOSING implies bt_fd = -1 and a timer armed with
\* SCO_CLOSE_TIMEOUT (armed, or expired and not yet read).
C5_ClosingReleased ==
  (pc = "poll" /\ state = "CLOSING") => (bt_fd = NOFD /\ timer.ms = SCO_CLOSE_TIMEOUT)

\* ------------------------------------------------------------------ C6
\* C6: every PCM_SYNC handled is followed, as long as the thread runs, by the signal
\* on spk_pcm.synced (and the return to RUNNING that comes with it), whatever other
\* signals arrive in between.
C6_DrainCompletes == drain_wait ~> (~drain_wait \/ pc = "exit")

\* ------------------------------------------------------------------ C7
\* C7: in the close scenario (Audio Gateway, link attached, PCM opened and closed,
\* one to MaxClose PCM_CLOSE queued, nothing reopened) the state walks RUNNING,
\* LINGER, CLOSING, IDLE; release() is called by the handler of the linger expiry,
\* right after it took LINGER to CLOSING, and nowhere else; once the link is released (bt_fd = -1) the
\* state is never LINGER again and release() is not called again; and the state
\* ends in IDLE with the link released.
C7_ClosePath ==
  /\ [][/\ state' # state =>
             <<state, state'>> \in {<<"IDLE", "RUNNING">>, <<"RUNNING", "LINGER">>,
                                    <<"LINGER", "CLOSING">>, <<"CLOSING", "IDLE">>}
        /\ (state = "LINGER" /\ state' = "CLOSING") <=> (pc # pc' /\ pc' = "linger_release")
        /\ (pc' # pc /\ released' = 1) <=> pc = "linger_release"
        /\ bt_fd = NOFD => (state' # "LINGER" /\ ~(pc' # pc /\ released' = 1))
       ]_vars
  /\ <>[](state = "IDLE" /\ bt_fd = NOFD /\ queue = <<>>)

\* the first PCM_CLOSE paced the linger time, the linger timer has expired, and
\* poll handed the thread a further queued PCM_CLOSE first
C7_Witness ==
  /\ pc = "sig"
  /\ state = "LINGER"
  /\ Head(queue) = "PCM_CLOSE"
  /\ timer = [ms |-> SCO_LINGER_TIMEOUT, exp |-> TRUE]
  /\ bt_fd # NOFD

\* ------------------------------------------------------------------ C8
\* C8: with a profile outside the Audio Gateway set, handling PCM_CLOSE changes
\* neither the state nor the timer, the state is never LINGER or CLOSING, and no
\* timer expiry makes the thread call release().
C8_HfNoLinger ==
  [][profile \notin BA_TRANSPORT_PROFILE_MASK_AG =>
       /\ (pc = "sig" /\ pc' # pc /\ Head(queue) = "PCM_CLOSE") =>
            (state' = state /\ timer' = timer /\ released' = 0)
       /\ state' \notin {"LINGER", "CLOSING"}
       /\ (pc = "timer" /\ pc' # pc) => (released' = 0 /\ bt_fd' = bt_fd)
       /\ pc' \notin {"close_mic", "linger_mic", "linger_release", "linger_timer"}
    ]_vars

\* a headset-role transport just handled PCM_CLOSE with both PCMs closed: RUNNING
\* still, no timer
C8_Witness ==
  /\ profile = "HF"
  /\ signal = "PCM_CLOSE"
  /\ state = "RUNNING"
  /\ spk_fd = NOFD
  /\ mic_fd = NOFD
  /\ timer = TimerOff
  /\ released = 0

\* ------------------------------------------------------------------ C9
\* C9: when a read or a write on the SCO socket returned 0 or failed with
\* ECONNABORTED or ECONNRESET, the step that handles the result calls release()
\* once, leaves bt_fd = -1 and the state as it was, and goes back to the loop head
\* (the thread does not end); the loop head starts with the descriptors 1 and 2 at
\* -1, and none of its steps taken with bt_fd = -1 changes them.
C9_PeerClosed ==
  [][/\ (/\ pc \in {"sco_read_done", "sco_write_done"}
         /\ pc' # pc
         /\ io.len <= 0
         /\ io.errno \in {"0", "ECONNABORTED", "ECONNRESET"}) =>
          /\ released' = 1
          /\ bt_fd' = NOFD
          /\ state' = state
          /\ pc' = "select"
     /\ (pc \in {"select"} \cup HeadReads /\ pc' # pc /\ bt_fd = NOFD) =>
          (pfds'[1] = pfds[1] /\ pfds'[2] = pfds[2])
     /\ pc = "select" => (pfds[1] = NOFD /\ pfds[2] = NOFD)
    ]_vars

\* the link was released because a write failed: the input buffer had no room for
\* a read, so the SCO socket was not read in this pass, and the output buffer
\* still holds the bytes the write should have sent
C9_Witness ==
  /\ pc = "select"
  /\ released = 1
  /\ bt_fd = NOFD
  /\ state = "RUNNING"
  /\ codec = "CVSD"
  /\ ffb_len_out(bt_out) >= mtu_write
  /\ ffb_len_in(bt_in, BufSize) < mtu_read

\* ------------------------------------------------------------------ C10
\* C10: the step that handles PCM_DROP disarms the timer and flushes the speaker
\* PCM once, leaves the state, bt_fd, the mtu values and the data buffers as they
\* were, and goes back to the loop head: no SCO or PCM I/O in that iteration.
C10_DropFrame ==
  [][(pc = "sig" /\ pc' # pc /\ Head(queue) = "PCM_DROP") =>
       /\ timer' = [ms |-> 0, exp |-> FALSE]
       /\ flushed' = 1
       /\ released' = 0
       /\ synced' = 0
       /\ pc' = "select"
       /\ UNCHANGED <<state, bt_fd, mtu_read, mtu_write, bt_in, bt_out, msbc, io>>
    ]_vars

\* PCM_DROP was just handled during the linger time: the linger timer is disarmed,
\* the state is LINGER still
C10_Witness ==
  /\ signal = "PCM_DROP"
  /\ flushed = 1
  /\ state = "LINGER"
  /\ timer = TimerOff
  /\ pc = "select"

\* ------------------------------------------------------------------ C11
\* C11: for a transport with codec mSBC the dispatcher handles an accepted link in
\* this order: setsockopt(BT_VOICE, TRANSPARENT) on the new descriptor, the one-byte
\* read on it, the attach (when sco_refresh_bt() returns, bt_fd is the new descriptor
\* and mtu_read = mtu_write is the MTU of the link), one PING to the speaker thread,
\* one PING to the microphone thread. When the setsockopt or the read fails, the
\* descriptor is closed and there is no attach and no PING: bt_fd, the MTUs and the
\* signal pipe are as they were.
C11_MsbcAccept ==
  [][codec = "MSBC" /\ dlog' # dlog /\ dlog' # <<>> =>
       LET order == <<"setsockopt", "read", "attach", "ping_spk", "ping_mic">>
           n == Len(dlog')
           last == dlog'[n]
       IN /\ \/ n <= 5 /\ dlog' = SubSeq(order, 1, n)
             \/ n <= 3 /\ dlog' = SubSeq(order, 1, n - 1) \o <<"close">>
          /\ last = "attach" =>
               /\ bt_fd' = dfd /\ dfd # NOFD
               /\ mtu_read' = hci_sco_get_mtu("MSBC")
               /\ mtu_write' = mtu_read'
               /\ queue' = queue
          /\ last \in {"ping_spk", "ping_mic"} =>
               /\ queue' = Append(queue, "PING")
               /\ tvars' = tvars
          /\ last = "close" =>
               /\ dfd # NOFD /\ dfd' = NOFD
               /\ tvars' = tvars
               /\ queue' = queue
          /\ last \in {"setsockopt", "read"} => tvars' = tvars /\ queue' = queue]_vars

\* an mSBC link was voiced, authorized, attached and both PINGs were sent
C11_Witness ==
  /\ codec = "MSBC"
  /\ dpc = "poll"
  /\ dlog = <<"setsockopt", "read", "attach", "ping_spk", "ping_mic">>

\* ------------------------------------------------------------------ C12
\* C12: when accept() fails, or the device or the transport of an accepted link is
\* not found, the dispatcher goes to its cleanup and from there back to the poll of
\* the listening socket: it does not end. The cleanup closes the accepted descriptor
\* when there is one. None of these steps changes bt_fd, mtu_read or mtu_write of the
\* transport or writes to a signal pipe.
C12_LookupFailure ==
  [][dpc' # dpc /\ dpc \in {"accept", "lookup_device", "lookup_transport", "cleanup"} =>
       /\ tvars' = tvars
       /\ queue' = queue
       /\ dpc' # "exit"
       /\ dpc = "accept" => \/ dpc' = "cleanup" /\ dfd' = NOFD
                            \/ dpc' = "lookup_device" /\ dfd' # NOFD
       /\ dpc = "lookup_device" => dpc' \in {"cleanup", "lookup_transport"} /\ dfd' = dfd
       /\ dpc = "lookup_transport" => dpc' \in {"cleanup", "voice"} /\ dfd' = dfd
       /\ dpc = "cleanup" =>
            /\ dpc' = "poll"
            /\ dfd' = NOFD
            /\ dlog' = IF dfd # NOFD THEN Append(dlog, "close") ELSE dlog]_vars

\* a lookup failed for an accepted link: its descriptor was closed before anything
\* else was done with it, and the dispatcher polls again
C12_Witness ==
  /\ dpc = "poll"
  /\ dlog = <<"close">>
  /\ dfd = NOFD

\* ------------------------------------------------------------------ C13
\* C13: bt_fd, mtu_read and mtu_write change only under t->mutex: inside
\* sco_refresh_bt(), which holds the mutex from before its release() until after the
\* MTUs are stored, or in a release() that sco_thread (through sco_release_bt()) or
\* the control plane makes when no other thread holds the mutex. bt_fd becomes a live
\* descriptor only by the store of sco_refresh_bt(), after its release() left -1, and
\* becomes -1 only by a release(). The dispatcher holds the mutex at no other place:
\* not in its poll, its accept, its lookups, its setsockopt and read, its PINGs.
C13_MutexGuardsLink ==
  /\ [][tvars' # tvars =>
          \/ /\ mutex = "dispatcher" /\ mutex' = "dispatcher"
             /\ \/ dpc = "release" /\ bt_fd' = NOFD /\ <<mtu_read, mtu_write>>' = <<mtu_read, mtu_write>>
                \/ dpc = "store_fd" /\ bt_fd = NOFD /\ bt_fd' = dfd /\ dfd # NOFD
                                    /\ <<mtu_read, mtu_write>>' = <<mtu_read, mtu_write>>
                \/ dpc = "store_mtu" /\ bt_fd' = bt_fd /\ mtu_read' = mtu_read
                \/ dpc = "store_mtu_read" /\ bt_fd' = bt_fd /\ mtu_write' = mtu_write
          \/ /\ mutex = "none" /\ mutex' = "none"
             /\ dpc' = dpc
             /\ bt_fd' = NOFD
             /\ <<mtu_read, mtu_write>>' = <<mtu_read, mtu_write>>
             /\ pc' # pc => released' = 1]_vars
  /\ [](mutex = "dispatcher" <=>
          dpc \in {"release", "store_fd", "store_mtu", "store_mtu_read", "unlock"})
  /\ [](mutex \in {"none", "dispatcher"})

\* the dispatcher is inside sco_refresh_bt() with the new descriptor and the first
\* of the two MTUs stored, while sco_thread has read the end of the old link and is
\* about to call sco_release_bt()
C13_Witness ==
  /\ mutex = "dispatcher"
  /\ dpc = "store_mtu_read"
  /\ mtu_write = hci_sco_get_mtu(codec)
  /\ mtu_read # mtu_write
  /\ bt_fd = dfd
  /\ pc = "sco_read_done"
  /\ io.errno \in PeerClosed

\* ------------------------------------------------------------------ C14
\* C14: within one iteration of the loop the handlers run in this order, each at most
\* once: signal, timer expiry, SCO read, SCO write, speaker PCM read, microphone PCM
\* write, pacing. After poll a queued signal is handled first, and with no signal a
\* pending expiry. t->sco.state changes only in the signal and the timer handler,
\* data moves (a read or a write is made, bt_in or bt_out change) only in the
\* handlers after them.
C14_HandlerOrder ==
  [][pc' # pc =>
       LET rank == [sig |-> 1, close_mic |-> 1,
                    timer |-> 2, linger_mic |-> 2, linger_release |-> 2, linger_timer |-> 2,
                    sco_read |-> 3, sco_read_done |-> 3,
                    sco_write |-> 4, sco_write_done |-> 4, pcm_read |-> 5,
                    pcm_write |-> 6, pace |-> 7]
           handlers == DOMAIN rank
       IN /\ pc \in handlers /\ pc' \in handlers =>
               \/ rank[pc'] > rank[pc]
               \/ <<pc, pc'>> \in {<<"sig", "close_mic">>, <<"timer", "linger_mic">>,
                                   <<"linger_mic", "linger_release">>,
                                   <<"linger_release", "linger_timer">>,
                                   <<"sco_read", "sco_read_done">>, <<"sco_read_done", "sco_read">>,
                                   <<"sco_write", "sco_write_done">>, <<"sco_write_done", "sco_write">>}
          /\ pc \in handlers => pc' \in handlers \cup {"select", "exit"}
          /\ pc = "poll" =>
               /\ pc' \in handlers \cup {"select", "exit"}
               /\ (queue # <<>> /\ pc' \in handlers) => pc' = "sig"
               /\ (queue = <<>> /\ timer.exp /\ pc' \in handlers) => pc' = "timer"
          /\ pc = "linger_release" => pc' = "linger_timer"
          /\ pc \in {"close_mic", "linger_timer"} => pc' = "select"
          /\ state' # state => pc \in {"sig", "close_mic", "timer", "linger_mic"}
          /\ (io' # io \/ bt_in' # bt_in \/ bt_out' # bt_out) =>
               pc \in handlers /\ rank[pc] \in 3..6]_vars

\* the close timer expired in CLOSING, the state became IDLE, and the loop went on
\* to a data handler in the same iteration
C14_Witness ==
  /\ rev.tmr
  /\ state = "IDLE"
  /\ timer = TimerRead
  /\ pc \in {"sco_read", "sco_write", "pcm_read", "pcm_write"}

\* ------------------------------------------------------------------ C15
\* C15: a step of sco_thread takes a signal out of the pipe only in the signal
\* handler, which is entered only from poll: one signal per iteration, and always
\* the oldest one. In a loop that keeps running, a backlog of k signals becomes a
\* backlog of k - 1, so every queued signal is consumed in the end.
C15_SignalFifo ==
  /\ [][pc' # pc =>
          /\ queue' # queue => /\ pc = "sig"
                               /\ queue # <<>>
                               /\ queue' = Tail(queue)
                               /\ signal' = Head(queue)
          /\ pc' = "sig" => pc = "poll"
          /\ pc = "sig" => queue' # queue]_vars
  /\ \A k \in 1..(MaxClose + 3) : (Len(queue) = k) ~> (Len(queue) = k - 1)

\* the last signal of the backlog was consumed
C15_Witness ==
  /\ queue = <<>>
  /\ signal = "PCM_CLOSE"
  /\ pc = "select"

\* ------------------------------------------------------------------ C16
\* C16: the cancel state of sco_thread is PTHREAD_CANCEL_ENABLE only while the thread
\* is in poll; at the loop head, in every handler and after the loop it is
\* PTHREAD_CANCEL_DISABLE.
C16_CancelOnlyInPoll == pc # "poll" => cancel = PTHREAD_CANCEL_DISABLE

\* ------------------------------------------------------------------ C17
\* C17: whenever sco_thread calls read() or write() on the SCO socket, the descriptor
\* it passes (pfds[1].fd for the read of line 448, pfds[2].fd for the write of line
\* 508) is the bt_fd the transport has at that moment; a descriptor that a release()
\* closed in the meantime is never used.
C17_IoOnCurrentLink ==
  [][/\ (pc = "sco_read" /\ pc' = "sco_read_done") => pfds[1] = bt_fd
     /\ (pc = "sco_write" /\ pc' = "sco_write_done") => pfds[2] = bt_fd]_vars

\* ------------------------------------------------------------------ C18
\* C18: however often sco_setup_connection_dispatcher() is called for the adapter,
\* at most one dispatcher thread is created, and one was created exactly when
\* a->sco_dispatcher is not the main thread. A call that finds a dispatcher recorded
\* returns 0 and creates nothing; a call whose pthread_create() fails leaves
\* a->sco_dispatcher at the main thread and returns -1; a call whose pthread_create()
\* succeeds records the new thread and returns 0.
C18_OneDispatcher ==
  /\ [](ndisp <= 1)
  /\ [](ndisp = 1 <=> sco_dispatcher # MAIN_THREAD)
  /\ [][setup_ret' # setup_ret \/ ndisp' # ndisp \/ sco_dispatcher' # sco_dispatcher =>
          IF sco_dispatcher # MAIN_THREAD
          THEN /\ setup_ret' = [ret |-> 0, created |-> FALSE]
               /\ ndisp' = ndisp
               /\ sco_dispatcher' = sco_dispatcher
               /\ dpc' = dpc
          ELSE \/ /\ setup_ret' = [ret |-> -1, created |-> FALSE]
                  /\ ndisp' = ndisp
                  /\ sco_dispatcher' = MAIN_THREAD
                  /\ dpc' = dpc
               \/ /\ setup_ret' = [ret |-> 0, created |-> TRUE]
                  /\ ndisp' = ndisp + 1
                  /\ sco_dispatcher' # MAIN_THREAD
                  /\ dpc' = "open"]_vars

\* the setup was called again while the dispatcher it had created was running
C18_Witness ==
  /\ ndisp = 1
  /\ sco_dispatcher = DISPATCHER_THREAD
  /\ setup_ret = [ret |-> 0, created |-> FALSE]
  /\ dpc = "poll"

\* ------------------------------------------------------------------ C19
\* C19: in mSBC mode, whenever sco_thread waits in poll while bt_fd is -1 or both
\* PCM fds are -1, the codec is not initialized or is marked for reinitialization
\* (initialize_msbc), so that the next pass calls msbc_init() before msbc_encode()
\* and msbc_decode().
C19_ReinitPending ==
  (codec = "MSBC" /\ pc = "poll" /\ (bt_fd = NOFD \/ (spk_fd = NOFD /\ mic_fd = NOFD)))
    => (~msbc.initialized \/ initialize_msbc)

\* ------------------------------------------------------------------ C20
\* C20: no failure of the mSBC codec ends the loop: a pass through the loop head,
\* where msbc_init(), msbc_encode() and msbc_decode() are called, always goes on to
\* choose the descriptors for the poll, and t->sco.state is what it was.
C20_CodecFailureTolerated ==
  [][pc = "select" /\ pc' # pc => pc' \in HeadReads /\ state' = state]_vars

\* ------------------------------------------------------------------ C21
\* C21: the step that handles PCM_OPEN or PCM_RESUME, in whatever state, leaves the
\* timer disarmed with no expiry pending, t->sco.state = RUNNING and asrs.frames = 0;
\* it calls no release(), leaves bt_fd, the MTUs and the buffers alone and ends the
\* iteration. Whenever the loop reaches the pacing step the synchronizer runs at
\* the sampling rate of the speaker PCM.
C21_OpenResume ==
  /\ [][(pc = "sig" /\ pc' # pc /\ signal' \in {"PCM_OPEN", "PCM_RESUME"}) =>
          /\ timer' = [ms |-> 0, exp |-> FALSE]
          /\ state' = "RUNNING"
          /\ asrs'.frames = 0
          /\ released' = 0
          /\ tvars' = tvars
          /\ bufvars' = bufvars
          /\ io' = io
          /\ pc' = "select"]_vars
  /\ [][pc' = "pace" => asrs'.rate = spk_sampling]_vars

\* PCM_OPEN or PCM_RESUME was handled while a timer was armed
C21_Witness ==
  /\ signal \in {"PCM_OPEN", "PCM_RESUME"}
  /\ state = "RUNNING"
  /\ timer = TimerOff
  /\ pc = "select"
  /\ asrs.frames = 0
  /\ asrs.rate = spk_sampling

\* C22 as claimed: the handler of PCM_CLOSE sets the state to LINGER and arms the
\* timer with SCO_LINGER_TIMEOUT (1000 ms, no expiry pending) exactly when the
\* profile is an Audio Gateway profile, both PCM descriptors are -1 and the state
\* is not LINGER; in every other case it ends with the state and the timer as they
\* were.
C22_CloseLinger ==
  [][(pc \in {"sig", "close_mic"} /\ pc' = "select" /\ signal' = "PCM_CLOSE") =>
       IF /\ profile \in BA_TRANSPORT_PROFILE_MASK_AG
          /\ spk_fd = NOFD
          /\ mic_fd = NOFD
          /\ state # "LINGER"
       THEN /\ state' = "LINGER"
            /\ timer' = [ms |-> 1000, exp |-> FALSE]
       ELSE /\ state' = state
            /\ timer' = timer]_vars

\* C22 amended: the handler of PCM_CLOSE reads spk_pcm.fd and then mic_pcm.fd, without
\* a lock. It sets the state to LINGER and arms the timer with SCO_LINGER_TIMEOUT
\* (1000 ms, no expiry pending) exactly when the profile is an Audio Gateway
\* profile, it read spk_pcm.fd as -1, it then read mic_pcm.fd as -1 and the state
\* is not LINGER; in every other case the state and the timer (its time and a
\* pending expiry) are as they were, so a PCM_CLOSE handled in LINGER does not
\* restart the timer. No release() is called and the iteration ends without
\* moving data.
C22_CloseLingerReads ==
  [][/\ (pc = "sig" /\ pc' # pc /\ signal' = "PCM_CLOSE") =>
          /\ pc' = (IF profile \in BA_TRANSPORT_PROFILE_MASK_AG /\ spk_fd = NOFD
                    THEN "close_mic" ELSE "select")
          /\ state' = state
          /\ timer' = timer
          /\ released' = 0
     /\ (pc = "close_mic" /\ pc' # pc) =>
          /\ IF mic_fd = NOFD /\ state # "LINGER"
             THEN /\ state' = "LINGER"
                  /\ timer' = [ms |-> 1000, exp |-> FALSE]
             ELSE /\ state' = state
                  /\ timer' = timer
          /\ released' = 0
          /\ pc' = "select"
          /\ signal' = "PCM_CLOSE"
     /\ (pc' = "close_mic" /\ pc' # pc) => (pc = "sig" /\ signal' = "PCM_CLOSE")
     /\ (pc \in {"sig", "close_mic"} /\ pc' # pc /\ signal' = "PCM_CLOSE") =>
          (bufvars' = bufvars /\ io' = io /\ tvars' = tvars)]_vars

\* a PCM_CLOSE was handled in LINGER while the expiry of the linger timer was
\* pending: the timer still reports it
C22_Witness ==
  /\ signal = "PCM_CLOSE"
  /\ pc = "select"
  /\ state = "LINGER"
  /\ timer = [ms |-> SCO_LINGER_TIMEOUT, exp |-> TRUE]
  /\ rev.sig = FALSE

\* C23: when the timer expires in LINGER, the thread leaves LINGER for CLOSING, calls
\* release() and arms SCO_CLOSE_TIMEOUT only for an Audio Gateway whose PCM
\* descriptors are both -1 when they are tested (the speaker PCM first, then the
\* microphone PCM); with a PCM open the state stays LINGER, nothing is released and
\* no timer is armed. And at the moment the linger path calls release() both PCM
\* descriptors are -1, also when the control plane opens a PCM while the expiry is
\* handled.
C23_LingerRelease ==
  [][/\ (pc = "timer" /\ pc' # pc /\ state = "LINGER") =>
          /\ pc' = (IF profile \in BA_TRANSPORT_PROFILE_MASK_AG /\ spk_fd = NOFD
                    THEN "linger_mic" ELSE "select")
          /\ state' = "LINGER" /\ released' = 0 /\ timer'.ms = 0 /\ bt_fd' = bt_fd
     /\ (pc = "linger_mic" /\ pc' # pc) =>
          IF mic_fd = NOFD
          THEN state' = "CLOSING" /\ pc' = "linger_release"
          ELSE /\ state' = "LINGER" /\ pc' = "select"
               /\ released' = 0 /\ timer'.ms = 0 /\ bt_fd' = bt_fd
     /\ (pc = "linger_release" /\ pc' # pc) =>
          /\ released' = 1
          /\ spk_fd = NOFD /\ mic_fd = NOFD
          /\ state' = "CLOSING"
          /\ pc' = "linger_timer"
     /\ (pc = "linger_timer" /\ pc' # pc) =>
          (timer' = [ms |-> 600, exp |-> FALSE] /\ state' = "CLOSING")
     /\ (pc' # pc /\ pc' \in {"linger_mic", "linger_release", "linger_timer"}) =>
          <<pc, pc'>> \in {<<"timer", "linger_mic">>, <<"linger_mic", "linger_release">>,
                           <<"linger_release", "linger_timer">>}]_vars

\* C24: at every poll with the CVSD codec the four data descriptors are the ones the
\* loop head chose from the buffers: descriptor 1 is bt_fd if bt_in has at least
\* mtu_read bytes free, descriptor 2 is bt_fd if bt_out holds at least mtu_write
\* bytes, descriptor 3 is the speaker PCM descriptor if a link is attached and bt_out
\* has at least mtu_write bytes free, descriptor 4 is the microphone PCM descriptor
\* if bt_in holds data; each is -1 otherwise, and they stay as chosen until poll
\* returns. The loop head makes each choice from the value of the transport field
\* it reads at that line: it starts with the four at -1, tests and stores in the
\* order of the lines, and the buffers do not change meanwhile. Descriptors 0 (signal pipe) and 5 (timer) are watched in every poll: a
\* queued signal or an expired timer makes poll return.
C24_PollSet ==
  /\ [][codec = "CVSD" =>
          /\ pc = "select" => pfds = <<NOFD, NOFD, NOFD, NOFD>>
          /\ (pc = "select" /\ pc' \notin {pc, "exit"}) =>
                pc' = (IF BufSize - bt_in >= mtu_read THEN "sel_in_fd" ELSE "sel_out")
          /\ (pc = "sel_in_fd" /\ pc' # pc) =>
                (pfds' = [pfds EXCEPT ![1] = bt_fd] /\ pc' = "sel_out")
          /\ (pc = "sel_out" /\ pc' # pc) =>
                pc' = (IF bt_out >= mtu_write THEN "sel_out_fd" ELSE "sel_spk")
          /\ (pc = "sel_out_fd" /\ pc' # pc) =>
                (pfds' = [pfds EXCEPT ![2] = bt_fd] /\ pc' = "sel_spk")
          /\ (pc = "sel_spk" /\ pc' # pc) =>
                pc' = (IF bt_fd # -1 THEN "sel_spk_mtu"
                       ELSE IF bt_in > 0 THEN "sel_mic_fd" ELSE "poll")
          /\ (pc = "sel_spk_mtu" /\ pc' # pc) =>
                pc' = (IF BufSize - bt_out >= mtu_write THEN "sel_spk_fd"
                       ELSE IF bt_in > 0 THEN "sel_mic_fd" ELSE "poll")
          /\ (pc = "sel_spk_fd" /\ pc' # pc) =>
                /\ pfds' = [pfds EXCEPT ![3] = spk_fd]
                /\ pc' = (IF bt_in > 0 THEN "sel_mic_fd" ELSE "poll")
          /\ (pc = "sel_mic_fd" /\ pc' # pc) =>
                (pfds' = [pfds EXCEPT ![4] = mic_fd] /\ pc' = "poll")
          /\ (pc \in {"select", "sel_out", "sel_spk", "sel_spk_mtu"} /\ pc' # "select") =>
                pfds' = pfds
          /\ pc \in HeadReads => (bt_in' = bt_in /\ bt_out' = bt_out)]_vars
  /\ [][pc = "poll" =>
          /\ pc' = "poll" => pfds' = pfds
          /\ (queue # <<>> \/ timer.exp) => ENABLED PollReturn
          /\ pc' \notin {"poll", "select", "exit"} =>
                rev' = [sig |-> queue # <<>>, tmr |-> timer.exp]]_vars

\* a CVSD poll with bt_in too full for another read (the SCO socket is not polled
\* for reading) and holding data for the microphone PCM, bt_out with room for the
\* speaker PCM and too little for a write
C24_Witness ==
  /\ pc = "poll"
  /\ codec = "CVSD"
  /\ bt_fd # NOFD
  /\ BufSize - bt_in < mtu_read
  /\ pfds[1] = NOFD
  /\ pfds[2] = NOFD
  /\ pfds[3] = spk_fd /\ spk_fd # NOFD
  /\ pfds[4] = mic_fd /\ mic_fd # NOFD

\* C25: a read or a write on the SCO socket that returns -1 with an errno other than
\* EINTR, ECONNABORTED and ECONNRESET calls no release(), leaves the state, bt_fd,
\* the MTUs and every buffer as they were and does not end the thread: the loop
\* starts its next iteration. A call that fails with EINTR is made again at once,
\* with the same descriptor, the same buffer (bt_in is not rewound a second time)
\* and, for a write, the same length, without the thread going back to poll.
C25_SocketErrors ==
  [][/\ (pc \in {"sco_read_done", "sco_write_done"} /\ pc' # pc /\ io.len <= 0
           /\ io.errno \notin {"EINTR", "0", "ECONNABORTED", "ECONNRESET"}) =>
          /\ released' = 0
          /\ state' = state
          /\ tvars' = tvars
          /\ bufvars' = bufvars
          /\ pc' = "select"
     /\ (pc \in {"sco_read_done", "sco_write_done"} /\ pc' # pc /\ io.len <= 0
           /\ io.errno = "EINTR") =>
          /\ pc' = (IF pc = "sco_read_done" THEN "sco_read" ELSE "sco_write")
          /\ released' = 0
          /\ state' = state
          /\ tvars' = tvars
          /\ bufvars' = bufvars
          /\ pfds' = pfds
     /\ (pc = "sco_read" /\ pc' = "sco_read_done" /\ io.errno = "EINTR") =>
          /\ bufvars' = bufvars
          /\ pfds' = pfds
     /\ (pc = "sco_write" /\ pc' = "sco_write_done" /\ io.errno = "EINTR") =>
          /\ io'.buffer_len = io.buffer_len
          /\ bufvars' = bufvars
          /\ pfds' = pfds]_vars

\* a write on an attached link failed with EIO while bt_out held a full packet
C25_Witness ==
  /\ pc = "sco_write_done"
  /\ io.len = -1 /\ io.errno = "EIO"
  /\ bt_fd # NOFD
  /\ pfds[2] = bt_fd
  /\ bt_out >= mtu_write
  /\ state = "RUNNING"

\* C26: the handler of the speaker PCM descriptor sends at most one signal, a
\* PCM_CLOSE appended to the thread's own pipe. A read that returns 0 sends it and
\* ends the iteration with the PCM still attached; a read that returns -1 sends
\* nothing, consumes nothing and ends the iteration; POLLERR or POLLHUP releases the
\* speaker PCM (its descriptor becomes -1) and sends it, and the iteration goes on.
\* In these cases the output buffers (bt_out, the encoder input) are unchanged, and
\* the handler itself does not act on the PCM_CLOSE: the state and the timer are as
\* they were, the signal waits in the pipe for a later iteration.
C26_SpeakerPcmFaults ==
  [][(pc = "pcm_read" /\ pc' # pc) =>
       /\ queue' = queue \/ queue' = Append(queue, "PCM_CLOSE")
       /\ spk_fd' \in {spk_fd, NOFD}
       /\ state' = state
       /\ timer' = timer
       /\ mic_fd' = mic_fd
       /\ bt_in' = bt_in
       /\ released' = 0
       /\ queue' # queue => /\ bt_out' = bt_out
                            /\ msbc' = msbc
                            /\ spk_fd' = spk_fd => pc' = "select"
       /\ spk_fd' # spk_fd => queue' # queue
       /\ (bt_out' # bt_out \/ msbc' # msbc) => (queue' = queue /\ spk_fd' = spk_fd)
       /\ (bt_out' = bt_out /\ msbc' = msbc /\ queue' = queue) => pc' = "select"]_vars

\* the speaker PCM was released after POLLHUP with data waiting in bt_out, and the
\* PCM_CLOSE is in the pipe, not yet handled
C26_Witness ==
  /\ spk_fd = NOFD
  /\ queue # <<>>
  /\ queue[Len(queue)] = "PCM_CLOSE"
  /\ bt_out > 0
  /\ state = "RUNNING"
  /\ pc \in {"pcm_write", "pace"}

\* C27 as stated: every iteration of sco_thread ends with the pacing step, that is,
\* once poll has returned the loop comes back to its head from the pacing step only.
C27_EveryIterationPaces ==
  [][(pc \notin {"select", "poll"} /\ pc' = "select") => pc = "pace"]_vars

\* C27, amended: an iteration ends with the pacing step unless a `continue` ended
\* it before (poll interrupted; a PING, PCM_OPEN, PCM_RESUME, PCM_CLOSE or PCM_DROP
\* signal; a timer expiry in DRAINING or LINGER; a failed SCO read or write; a
\* speaker PCM read that returned nothing); after the microphone PCM handler the
\* pacing step always follows. With CVSD the pacing step calls asrsync_sync() with
\* mtu_write / 2 frames; with mSBC it calls it with enc_frames * 120 frames and
\* zeroes enc_frames when enc_frames > 0, and leaves the synchronizer and
\* enc_frames alone otherwise. The frame counter advances by the frames of the
\* call (counted up to AsrsCap), and no other step advances it. With either codec
\* the pacing step then publishes one delay value to both PCM endpoints, and no
\* other step changes the delay.
C27_Pacing ==
  [][/\ (pc = "pace" /\ pc' # pc) =>
          /\ pc' = "select"
          /\ codec = "CVSD" =>
                /\ paced' = mtu_write \div 2
                /\ msbc' = msbc
          /\ (codec = "MSBC" /\ msbc.enc_frames > 0) =>
                /\ paced' = msbc.enc_frames * 120
                /\ msbc' = [msbc EXCEPT !.enc_frames = 0]
          /\ (codec = "MSBC" /\ msbc.enc_frames <= 0) =>
                /\ paced' = 0
                /\ msbc' = msbc
          /\ asrs'.frames = Min(asrs.frames + paced', AsrsCap)
          /\ asrs'.rate = asrs.rate
          /\ delay'.spk = delay'.mic
     /\ pc # "pace" =>
          /\ delay' = delay
          /\ asrs'.frames \in {0, asrs.frames}
          /\ paced' \in {0, paced}
          /\ pc' # pc => paced' = 0
     /\ pc = "pcm_write" => pc' \in {"pcm_write", "pace"}
     /\ (pc' = "select" /\ pc \notin {"select", "pace"}) =>
          \/ pc = "poll"
          \/ pc = "sig" /\ signal' \in {"PING", "PCM_OPEN", "PCM_RESUME", "PCM_CLOSE", "PCM_DROP"}
          \/ pc = "close_mic" /\ signal' = "PCM_CLOSE"
          \/ pc = "timer" /\ state \in {"DRAINING", "LINGER"}
          \/ pc = "linger_mic" /\ state = "LINGER"
          \/ pc = "linger_timer" /\ state = "CLOSING"
          \/ pc \in {"sco_read_done", "sco_write_done"} /\ io.len <= 0
          \/ pc = "pcm_read" /\ bt_out' = bt_out /\ msbc' = msbc]_vars

\* the first pacing step of a CVSD transfer was taken: asrsync_sync() was called
\* with mtu_write / 2 frames, the synchronizer, set up at 8000 Hz, counts them, and
\* both endpoints carry the same delay, a busy time of 100 microseconds or more
C27_Witness ==
  /\ pc = "select"
  /\ codec = "CVSD"
  /\ bt_fd # NOFD
  /\ paced = mtu_write \div 2
  /\ paced > 0
  /\ asrs = [frames |-> paced, rate |-> 8000]
  /\ delay.spk = delay.mic
  /\ delay.spk > 0
  /\ bt_out > 0

\* C28: for each timeout the program passes to sco_start_timer() (250, 600 and
\* 1000 ms, the last being its only argument of a second or more) the it_value is
\* normalized and worth exactly msec milliseconds (tv_sec * 1000 + tv_nsec /
\* 1000000 = msec, 0 <= tv_nsec < 1000000000), computed without overflow with a
\* long of 32 or of 64 bits; the call leaves the timer armed for msec milliseconds
\* with no expiry pending, whatever was armed or pending before: 1000 ms when
\* PCM_CLOSE starts the linger time, 250 ms for PCM_SYNC, 600 ms after the linger
\* release. sco_cancel_timer() (PCM_OPEN, PCM_RESUME, PCM_DROP) leaves the timer
\* disarmed with no expiry pending. The timer changes only by these calls, by its
\* expiry and by the read of the expiry, so at most one expiry is pending.
C28_TimerExact ==
  /\ \A msec \in {SCO_DRAIN_TIMEOUT, SCO_CLOSE_TIMEOUT, SCO_LINGER_TIMEOUT} :
       LET v == sco_start_timer(msec)
       IN /\ \A bits \in LongBits : ~mul_overflows(msec, bits)
          /\ v.tv_sec * 1000 + v.tv_nsec \div 1000000 = msec
          /\ v.tv_nsec >= 0
          /\ v.tv_nsec < 1000000000
  /\ [][/\ (pc = "close_mic" /\ state' # state) => timer' = [ms |-> 1000, exp |-> FALSE]
        /\ (pc = "sig" /\ pc' # pc /\ signal' = "PCM_SYNC") => timer' = [ms |-> 250, exp |-> FALSE]
        /\ (pc = "linger_timer" /\ pc' # pc) => timer' = [ms |-> 600, exp |-> FALSE]
        /\ (pc = "sig" /\ pc' # pc /\ signal' \in {"PCM_OPEN", "PCM_RESUME", "PCM_DROP"}) =>
             timer' = [ms |-> 0, exp |-> FALSE]
        /\ timer' # timer =>
             \/ pc = "close_mic" /\ state' # state
             \/ pc = "sig" /\ signal' \in {"PCM_SYNC", "PCM_OPEN", "PCM_RESUME", "PCM_DROP"}
             \/ pc = "linger_timer"
             \/ pc = "timer" /\ timer' = [ms |-> 0, exp |-> FALSE]
             \/ pc' = pc /\ timer.ms # 0 /\ ~timer.exp /\ timer' = [timer EXCEPT !.exp = TRUE]
       ]_vars

\* poll reported an expiry of the linger timer together with a PCM_SYNC; the signal
\* handler armed the drain timer, which replaced the expiry that was pending, and
\* the timer handler is about to read
C28_Witness ==
  /\ pc = "timer"
  /\ signal = "PCM_SYNC"
  /\ rev.tmr
  /\ state = "DRAINING"
  /\ timer = [ms |-> SCO_DRAIN_TIMEOUT, exp |-> FALSE]

\* C29: the cursors of bt_in and bt_out stay within the buffers (0 <= pending
\* bytes <= 128, that is, head <= tail <= capacity) whatever the loop does; a step
\* of the microphone PCM handler takes whole samples out of bt_in, never more than
\* bt_in holds, and takes nothing out when the write returned 0 (a PCM_CLOSE was
\* sent) or -1; a step of the SCO socket or speaker PCM handlers adds to a buffer
\* no more than its free space and takes out no more than it holds.
C29_BufferCursors ==
  [][/\ bt_in' \in 0..BufSize
     /\ bt_out' \in 0..BufSize
     /\ (pc = "pcm_write" /\ pc' # pc) =>
          /\ \E k \in 0..(bt_in \div 2) : bt_in' = bt_in - 2 * k
          /\ queue' # queue => bt_in' = bt_in
          /\ bt_out' = bt_out
     /\ pc \in {"sco_read", "sco_read_done"} =>
          /\ bt_in' <= BufSize
          /\ bt_in' >= bt_in \/ bt_in' = 0
          /\ bt_out' = bt_out
     /\ pc \in {"sco_write", "sco_write_done"} =>
          /\ bt_out' <= bt_out
          /\ bt_out' >= 0
          /\ bt_in' = bt_in
     /\ pc = "pcm_read" =>
          /\ bt_out' >= bt_out
          /\ bt_out' <= BufSize
          /\ bt_in' = bt_in]_vars

\* C30: the iteration that handles PCM_SYNC sets DRAINING, arms the drain timer and
\* goes on with the timer and I/O handlers instead of returning to the loop head;
\* the step from DRAINING to RUNNING that signals spk_pcm.synced is taken only when
\* the drain timer (250 ms) has expired; and the thread comes to the read of the
\* timer only with an expiry to read, so that the read neither blocks nor fails,
\* also in the iteration that handled PCM_SYNC after poll had reported an expiry
\* of the timer armed before.
C30_SyncIteration ==
  [][/\ (pc = "sig" /\ pc' # pc /\ signal' = "PCM_SYNC") =>
          /\ pc' \notin {"select", "exit"}
          /\ state' = "DRAINING"
          /\ timer' = [ms |-> SCO_DRAIN_TIMEOUT, exp |-> FALSE]
          /\ synced' = 0
     /\ (state = "DRAINING" /\ synced' = 1) =>
          /\ pc = "timer"
          /\ timer = [ms |-> SCO_DRAIN_TIMEOUT, exp |-> TRUE]
          /\ state' = "RUNNING"
     /\ pc' = "timer" => timer'.exp
     /\ (pc = "timer" /\ pc' = "exit") => timer.exp]_vars

\* ------------------------------------------------------------------ C31
\* C31: with codec CVSD, while the microphone PCM is closed and a SCO link is
\* attached, incoming SCO data keeps being read and thrown away: the loop head
\* selects the SCO socket for reading (descriptor 1), the read is made into a bt_in
\* that was rewound, and its result is not added to bt_in; bt_in is therefore empty
\* when the microphone PCM is opened again, and nothing received or buffered before
\* that is written to it.
C31_MicClosedDiscards ==
  [][(codec = "CVSD" /\ mic_fd = NOFD /\ bt_fd # NOFD) =>
       /\ (pc = "select" /\ pc' \notin {pc, "exit"}) => pc' = "sel_in_fd"
       /\ (pc = "sel_in_fd" /\ pc' # pc) => pfds'[1] = bt_fd
       /\ (pc = "sco_read" /\ pc' = "sco_read_done") => bt_in' = 0
       /\ (pc = "sco_read_done" /\ pc' \notin {"sco_read_done", "sco_read"}) => bt_in' = 0
       /\ mic_fd' # NOFD => bt_in = 0]_vars

\* ------------------------------------------------------------------ C32
\* C32: whenever sco_thread waits in poll with the timer of the transport armed, or
\* with an expiry of it not yet read, t->sco.state is DRAINING, LINGER or CLOSING;
\* in IDLE and RUNNING the timer is disarmed at the loop head and in poll, and the
\* timer handler never runs with the state IDLE or RUNNING.
C32_TimerStates ==
  /\ (pc = "poll" /\ (timer.ms # 0 \/ timer.exp)) => state \in {"DRAINING", "LINGER", "CLOSING"}
  /\ (pc \in {"select", "poll"} \cup HeadReads /\ state \in {"IDLE", "RUNNING"}) =>
       timer = TimerOff
  /\ pc = "timer" => state \notin {"IDLE", "RUNNING"}

\* the thread waits in poll in state CLOSING and the close timer, armed when the
\* linger timer was read, has expired
C32_Witness ==
  /\ pc = "poll"
  /\ state = "CLOSING"
  /\ timer = [ms |-> SCO_CLOSE_TIMEOUT, exp |-> TRUE]

\* ------------------------------------------------------------------ C33
\* how often the dispatcher did `what` for the link it accepted last
Did(what) == Cardinality({i \in DOMAIN dlog : dlog[i] = what})

\* C33: a descriptor the dispatcher accepted is, by the end of the iteration, either
\* handed to the transport by sco_refresh_bt() (bt_fd is that descriptor when the
\* call returns; the dispatcher then forgets it, whatever sco_thread or the
\* control plane did with the link meanwhile) and not closed by the dispatcher, or
\* closed by the dispatcher and not handed over: one of the two, never both, never
\* neither; where accept() failed nothing is handed over or closed. A lookup that
\* succeeds takes one reference, and the iteration gives every reference it took
\* back exactly once before it ends, after a handover and after every failure;
\* between two iterations the dispatcher holds no reference and no descriptor.
C33_DescriptorAndReferences ==
  /\ [][dpc' # dpc =>
          /\ dpc = "unlock" =>
               /\ bt_fd = dfd /\ dfd # NOFD
               /\ dlog' = Append(dlog, "attach")
               /\ dfd' = dfd
               /\ dpc' = "clear_fd"
          /\ dpc' = "clear_fd" => dpc = "unlock"
          /\ (dfd # NOFD /\ dfd' = NOFD) =>
               \/ /\ dpc = "clear_fd"
                  /\ dlog # <<>> /\ dlog[Len(dlog)] = "attach"
                  /\ dlog' = dlog
               \/ dpc = "cleanup" /\ bt_fd # dfd /\ dlog' = Append(dlog, "close")
          /\ (dpc = "lookup_device" /\ dpc' = "lookup_transport") =>
               refs' = [refs EXCEPT !.d = TRUE, !.device = 1]
          /\ (dpc = "lookup_transport" /\ dpc' = "voice") =>
               refs' = [refs EXCEPT !.t = TRUE, !.transport = 1]
          /\ (dpc \in {"lookup_device", "lookup_transport"} /\ dpc' = "cleanup") => refs' = refs
          /\ (dpc \in {"cleanup", "ping_mic"} /\ dpc' = "poll") =>
               /\ refs.device = (IF refs.d THEN 1 ELSE 0)
               /\ refs.transport = (IF refs.t THEN 1 ELSE 0)
               /\ refs' = NoRefs
               /\ dfd' = NOFD
               /\ dpc = "ping_mic" => refs.d /\ refs.t /\ dfd = NOFD
               /\ LET attached == IF dpc = "ping_mic" THEN 1 ELSE 0
                      closed == IF dpc = "cleanup" /\ dfd # NOFD THEN 1 ELSE 0
                  IN /\ Did("attach")' = attached
                     /\ Did("close")' = closed
                     /\ attached + closed <= 1
                     /\ (attached + closed = 0) => (dpc = "cleanup" /\ ~refs.d /\ ~refs.t)]_vars
  /\ [](dpc \in {"none", "open", "poll", "accept", "exit"} => (dfd = NOFD /\ refs.device = 0 /\ refs.transport = 0))
  /\ [](refs.device \in {0, 1} /\ refs.transport \in {0, 1} /\ (refs.t => refs.d))

\* a link was handed over (attach logged, nothing closed) and the dispatcher has
\* just forgotten its descriptor, holding both references still; the link was
\* released again before that
C33_Witness ==
  /\ dpc = "ping_spk"
  /\ dfd = NOFD
  /\ bt_fd = NOFD
  /\ Did("attach") = 1
  /\ Did("close") = 0
  /\ refs.device = 1
  /\ refs.transport = 1

\* ------------------------------------------------------------------ C34
\* C34: with codec CVSD, a link attached whose MTU is at most the capacity of the
\* buffers (mtu_write <= 128) and the speaker PCM open, playback cannot stall:
\* whenever the thread waits in poll, the SCO socket is polled for writing
\* (descriptor 2: bt_out holds at least mtu_write bytes) or the speaker PCM is
\* polled for reading (descriptor 3: bt_out has at least mtu_write bytes free),
\* whatever the sizes of the pieces the speaker PCM reads returned.
C34_PlaybackNeverStalls ==
  (pc = "poll" /\ codec = "CVSD" /\ bt_fd # NOFD /\ spk_fd # NOFD /\ mtu_write <= BufSize) =>
    (pfds[2] = bt_fd \/ pfds[3] = spk_fd)

\* ------------------------------------------------------------------ C35
\* the bytes pending in the buffer the SCO write takes its data from (bt_out for
\* CVSD, msbc.enc_data for mSBC) and the capacity of that buffer
WritePending == IF codec = "MSBC" THEN ffb_len_out(msbc.enc_data) ELSE ffb_len_out(bt_out)
WriteCapacity == IF codec = "MSBC" THEN MsbcDataSize ELSE BufSize

\* C35: a SCO write sends only bytes that are pending in the output buffer: the
\* length passed to write(), t->mtu_write as it is read before the first attempt, is
\* at most the number of bytes pending in bt_out (msbc.enc_data for mSBC) and at most
\* the capacity of the buffer, and the shift that follows a write takes out no more
\* than is pending, also when sco_refresh_bt() stores a new mtu_write between the
\* selection of the descriptors and the write.
C35_WriteWithinPending ==
  [][/\ (pc = "sco_write" /\ pc' = "sco_write_done") =>
          /\ io'.buffer_len <= WritePending
          /\ io'.buffer_len <= WriteCapacity
     /\ (pc = "sco_write_done" /\ pc' # pc /\ io.len > 0) => io.len <= WritePending]_vars

====
